---- MODULE Spec2Model ----
(***************************************************************************)
(* Model of the solidtime browser extension.                               *)
(*                                                                         *)
(* Part 1 (SpecToken): the token store and refresh coordinator of          *)
(* entrypoints/utils/oauth.ts, the 401 interceptor of                      *)
(* entrypoints/utils/api.ts and the background message handlers            *)
(* (START_OAUTH_FLOW, REFRESH_TOKEN).  Every context (popup, content       *)
(* script) is a single-threaded event loop: an action is one handler or    *)
(* one continuation run to its next await.  browser.storage.local is one   *)
(* serialised store; an operation is applied when it is called and its     *)
(* onChanged event, then its completion, are queued in order to the        *)
(* contexts (inbox).                                                       *)
(*                                                                         *)
(* Part 2: the DOM injection controller of entrypoints/utils/jira.ts and   *)
(* initializeJira of the content script.  SpecJira is one tab with page    *)
(* loads and in-page navigation, SpecWatch one tab with the watchdog       *)
(* observers, SpecClick one tab with clicks on the injected control.  The  *)
(* document is abstracted to the actions wrapper (anchor) and the          *)
(* sequence of injected controls it contains; a suspended call is an       *)
(* element of a bag and resumes in one action.  The three initialisers     *)
(* of the content script have the same shape; platform tells them apart    *)
(* where they differ (initializeLinear installs no watchdog).              *)
(*                                                                         *)
(* Part 3 (SpecConfig): endpoint and clientId of oauth.ts, kept with       *)
(* useStorage in the window.localStorage of each context's origin, and     *)
(* the instance settings modal that saves them.                            *)
(*                                                                         *)
(* Part 4 (SpecTimer): useTimer and the mutations of scope "timeEntry" of  *)
(* entrypoints/utils/timeEntries.ts in the popup, with the query cache     *)
(* entry ["currentTimeEntry"] and the watcher that copies it to            *)
(* currentTimeEntry.                                                       *)
(***************************************************************************)
EXTENDS Integers, Sequences, FiniteSets, Bags, TLC

\* ---------------------------------------------------------------- bounds
\* Token pairs the authorization server can mint (1 is the pair of an
\* earlier session); 0 stands for the empty string / an absent key.
MaxTok == 3
\* Concurrent API requests per context.
MaxReq == 2

Contexts == {"popup", "content"}
Reqs == 1..MaxReq
\* Concurrent START_OAUTH_FLOW messages handled by the background.
MaxFlows == 1
Flows == 1..MaxFlows
\* The state parameter of an OAuth callback URL: 0 absent, f the string that
\* createRandomString(40) returned for the request in slot f (two calls never
\* return the same string), MaxFlows + 2 a string no request generated.
CallbackStates == 0..(MaxFlows + 2)

\* Issue pages the tab can show; URL 0 is a page that is not an issue page.
NumIssues == 2
\* The hosts main() of the content script dispatches on.
Platforms == {"linear", "jira", "plane"}

\* The messages handleJiraTrackingClick shows with alert().
Alerts == {"none", "login", "organization", "failed"}

\* A board URL whose selectedIssue parameter is present but empty.
BoardUrlNoKey == NumIssues + 1
Urls == 0..BoardUrlNoKey
\* The pages an in-page navigation leads to.
NavTargets == 0..NumIssues
\* Suspended handlePageLoad calls, and suspended click handlers.
MaxTasks == 2
\* Observers of observeJiraActionsWrapper that initializeJira no longer
\* references but that are still connected or still have a callback pending.
MaxObs == 1
\* Injected controls in the document.
MaxBtns == 2
ButtonIds == 1..(MaxBtns + MaxTasks)

VARIABLES
  store,          \* browser.storage.local: access_token, refresh_token
  accessToken,    \* oauth.ts accessToken ref, per context
  refreshToken,   \* oauth.ts refreshToken ref, per context
  up,             \* the context has loaded oauth.ts
  inbox,          \* per context: queued storage events and completions
  refreshPromise, \* oauth.ts refreshPromise and the in-flight refresh, per context
  req,            \* apiClient requests, per context and slot
  outstanding,    \* REFRESH_TOKEN messages awaiting their answer, per context
  minted,         \* last token pair minted by the authorization server
  oauthState,     \* background: oauthState (0: none yet, f: the string
                  \* generated for the request in slot f)
  flow,           \* background: the START_OAUTH_FLOW in progress
  loggedOut       \* history: "called" logout() is awaiting the removal,
                  \* "done" it has returned; "no" after the write of a login

tokenVars == <<store, accessToken, refreshToken, up, inbox, refreshPromise,
               req, outstanding, minted, oauthState, flow, loggedOut>>

VARIABLES
  started,        \* initializeJira has run
  url,            \* window.location of the tab
  lastUrl,        \* observeJiraUrlChanges: lastUrl
  handled0,       \* history: handlePageLoad has run on the page now shown
                  \* and found that it is not an issue page
  handled,        \* history: handlePageLoad has run since the URL changed
  platform,       \* the host the content script runs on
  alert,          \* the last message shown to the user with alert()
  removed,        \* history: the host page removed an injected control
  anchor,         \* the actions wrapper is in the document
  btns,           \* the injected controls in the document, in document order
  loads,          \* bag of suspended handlePageLoad calls
  clicks,         \* bag of suspended handleJiraTrackingClick calls
  watch,          \* initializeJira: actionsWrapperObserver (NoObs: null)
  leaked,         \* bag of the other observers still alive
  active          \* the server has an active time entry for the user

domVars == <<started, url, lastUrl, handled0, handled, anchor, btns, loads, clicks,
             watch, leaked, active, platform, alert, removed>>

VARIABLES
  localStorage,   \* window.localStorage of each origin: instance_endpoint,
                  \* instance_client_id (0: the key is absent)
  endpoint,       \* oauth.ts endpoint ref, per context (0: module not loaded)
  clientId,       \* oauth.ts clientId ref, per context
  modal,          \* the instance settings modal: tempEndpoint, tempClientId
                  \* (reset: the inputs are as "Reset to defaults" left them)
  sentTo,         \* per context: the endpoint and client id of the last
                  \* request or REFRESH_TOKEN message since the last save
  saved           \* history: the values of the last save (NotSaved: none)

configVars == <<localStorage, endpoint, clientId, modal, sentTo, saved>>

VARIABLES
  now,              \* the clock read by dayjs().utc().format()
  currentTimeEntry, \* useTimer: currentTimeEntry (popup localStorage)
  queryData,        \* query cache: data of ["currentTimeEntry"]
  seen,             \* the query data the watcher of the popup last ran on
  mutations,        \* the mutations of scope "timeEntry", oldest first
  uuids,            \* ids handed out by crypto.randomUUID()
  offlineUuidStore, \* timeEntries.ts: temporary id -> id given by the server
  invalidated,      \* the query ["currentTimeEntry"] is marked stale
  lastStop,         \* history: id and end of the entry stopTimer last stopped
  seq,              \* history: the last call of useTimer
  remote,           \* the entry that runs at the remote (emptyTimeEntry: none)
  fetching,         \* a fetch of ["currentTimeEntry"] is in flight
  isError,          \* isError of the query ["currentTimeEntry"]
  seenError,        \* the isError the watcher of the popup last ran on
  settled,          \* history: the mutation that settled last
  table,            \* the request of the table in flight ("none": none)
  memberships,      \* myMemberships.ts: the memberships the query has loaded
  currentMembershipId  \* myMemberships.ts: currentMembershipId (0: null or undefined)

timerVars == <<now, currentTimeEntry, queryData, seen, mutations, uuids,
               offlineUuidStore, invalidated, lastStop, seq, remote,
               fetching, isError, seenError, settled, table, memberships,
               currentMembershipId>>

VARIABLES
  location,         \* window.location of a page: segments of the path, query
  info,             \* what the content script has read from window.location
  waiting           \* a call of waitForElement and the element it waits for

pageVars == <<location, info, waiting>>

VARIABLES
  storageLocal,     \* browser.storage.local: the keys of the selection
  watchedSelection, \* the selection the watchers of the popup last ran on
  pendingSets,      \* the calls of storage.local.set under way, oldest first
  observed          \* the selection a content script has read last

selectionVars == <<storageLocal, watchedSelection, pendingSets, observed>>

vars == <<tokenVars, domVars, configVars, timerVars, pageVars, selectionVars>>

\* An observer of observeJiraActionsWrapper with its closure variables
\* (sched: checkScheduled, reinj: isReinjecting), the calls of
\* checkAndReinject that requestAnimationFrame holds (frames), its pending
\* timer and the injection its checkAndReinject is suspended in.
NoObs == [desc |-> 0, on |-> FALSE, sched |-> FALSE, frames |-> 0,
          reinj |-> FALSE, timer |-> FALSE, pc |-> "idle", live |-> FALSE]

\* The content script before initializeJira, on a page that is no issue page.
DomIdle ==
  /\ started = FALSE /\ url = 0 /\ lastUrl = 0 /\ handled0 = FALSE
  /\ handled = FALSE
  /\ anchor = FALSE /\ btns = <<>>
  /\ loads = EmptyBag /\ clicks = EmptyBag
  /\ watch = NoObs /\ leaked = EmptyBag
  /\ active = FALSE
  /\ platform = "jira" /\ alert = "none" /\ removed = FALSE

\* A key that localStorage does not hold, and a ref of a module not loaded.
Absent == [host |-> 0, slashes |-> 0]

NotSaved == [endpoint |-> Absent, clientId |-> 0]

NotSent == [kind |-> "none", endpoint |-> Absent, clientId |-> 0]

NoModal == [tempEndpoint |-> Absent, tempClientId |-> 0, reset |-> FALSE]

Origins == {"extension", "page"}

\* No context has loaded oauth.ts; nothing was ever saved.
ConfigIdle ==
  /\ localStorage = [o \in Origins |-> [instance_endpoint |-> Absent,
                                        instance_client_id |-> 0]]
  /\ endpoint = [c \in Contexts |-> Absent]
  /\ clientId = [c \in Contexts |-> 0]
  /\ modal = NoModal
  /\ sentTo = [c \in Contexts |-> NotSent]
  /\ saved = NotSaved

emptyTimeEntry == [id |-> 0, start |-> 0, end |-> 0, organization_id |-> 0]

\* Query data that is not a response: nothing fetched yet, or the bare
\* emptyTimeEntry that the stop mutation puts in the cache.
NoData == [data |-> emptyTimeEntry, response |-> FALSE]

NoStop == [id |-> 0, end |-> 0]

NoneSettled == [kind |-> "none", sent |-> FALSE, ok |-> FALSE,
                invalidated |-> {}]

\* The popup before any call of useTimer.
TimerIdle ==
  /\ now = 1
  /\ currentTimeEntry = emptyTimeEntry
  /\ queryData = NoData /\ seen = NoData
  /\ mutations = <<>>
  /\ uuids = 0
  /\ offlineUuidStore = {}
  /\ invalidated = FALSE
  /\ lastStop = NoStop
  /\ seq = "none"
  /\ remote = emptyTimeEntry
  /\ fetching = FALSE
  /\ isError = FALSE
  /\ seenError = FALSE
  /\ settled = NoneSettled
  /\ table = "none"
  /\ memberships = {}
  /\ currentMembershipId = 0

\* The content script has looked at no page.
NoLocation == [segments |-> <<>>, search |-> <<>>]

NoInfo == [platform |-> "none", isIssuePage |-> FALSE, null |-> TRUE,
           id |-> <<>>, title |-> <<>>, project |-> <<>>]

\* No call of waitForElement: timeout is the argument in ticks, elapsed is
\* Date.now() - startTime, present says whether the selector yields an
\* element now, frame whether requestAnimationFrame holds check; resolved and
\* rejected count the calls of resolve and reject, settledAt is elapsed at
\* the first of them.
NoWait == [pc |-> "none", timeout |-> 0, elapsed |-> 0, present |-> FALSE,
           frame |-> FALSE, resolved |-> 0, rejected |-> 0, settledAt |-> 0]

PageIdle == location = NoLocation /\ info = NoInfo /\ waiting = NoWait

\* The keys of the selection in browser.storage.local (0: absent).
NoSelection == [current_organization_id |-> 0, currentMembershipId |-> 0]

\* No popup has written a selection and no content script has read one.
SelectionIdle ==
  /\ storageLocal = NoSelection /\ watchedSelection = NoSelection
  /\ pendingSets = <<>> /\ observed = NoSelection

\* ------------------------------------------------------------- the store
Empty == [access_token |-> 0, refresh_token |-> 0]

Pair(a, r) == [access_token |-> a, refresh_token |-> r]

\* The onChanged event of a store operation: only keys whose value changed.
Changed(old, new) ==
  [t |-> "changed",
   ca |-> old.access_token # new.access_token, a |-> new.access_token,
   cr |-> old.refresh_token # new.refresh_token, r |-> new.refresh_token,
   k |-> 0]

Completion(type, k) ==
  [t |-> type, ca |-> FALSE, a |-> 0, cr |-> FALSE, r |-> 0, k |-> k]

\* The inboxes after a store operation old -> new called by context `by`
\* ("background" for the background process), whose completion is `done`
\* (<<>> when the caller has no continuation).
StoreOp(old, new, by, done) ==
  [c \in Contexts |->
     LET ev == IF up[c] /\ old # new THEN <<Changed(old, new)>> ELSE <<>>
         dn == IF c = by THEN done ELSE <<>>
     IN  inbox[c] \o ev \o dn]

\* ----------------------------------------------------------- oauth.ts
NoPromise == [phase |-> "none", rt |-> 0, data |-> 0]

IdleReq == [st |-> "idle", retry |-> FALSE, n |-> 0, tok |-> 0,
            path |-> "none", newTok |-> 0]

\* A request that has settled keeps its outcome, the number of times it was
\* sent and the way it went through refreshAccessToken().
Settled(r, outcome) ==
  [IdleReq EXCEPT !.st = outcome, !.n = r.n, !.path = r.path]

\* loadTokens(): storage.local.get is issued when the module loads.
StartContext(c) ==
  /\ ~up[c]
  /\ up' = [up EXCEPT ![c] = TRUE]
  /\ inbox' = [inbox EXCEPT ![c] =
       <<[t |-> "got", ca |-> TRUE, a |-> store.access_token,
          cr |-> TRUE, r |-> store.refresh_token, k |-> 0]>>]
  /\ UNCHANGED <<store, accessToken, refreshToken, refreshPromise, req,
                 outstanding, minted, oauthState, flow>>
  /\ UNCHANGED <<domVars, configVars, timerVars, pageVars, selectionVars,
                 loggedOut>>

\* loadTokens(): the continuation after the get.
LoadTokensDone(c) ==
  /\ up[c] /\ inbox[c] # <<>> /\ Head(inbox[c]).t = "got"
  /\ accessToken' = [accessToken EXCEPT ![c] = Head(inbox[c]).a]
  /\ refreshToken' = [refreshToken EXCEPT ![c] = Head(inbox[c]).r]
  /\ inbox' = [inbox EXCEPT ![c] = Tail(inbox[c])]
  /\ UNCHANGED <<store, up, refreshPromise, req, outstanding, minted,
                 oauthState, flow>>
  /\ UNCHANGED <<domVars, configVars, timerVars, pageVars, selectionVars,
                 loggedOut>>

\* The storage.onChanged listener: each changed key updates its cell.
OnChangedAccessIgnored(m, old) == old

OnChangedAccess(m, old) == IF m.ca THEN m.a ELSE old

OnChangedRefreshIgnored(m, old) == old

OnChangedRefresh(m, old) == IF m.cr THEN m.r ELSE old

OnChanged(c) ==
  /\ up[c] /\ inbox[c] # <<>> /\ Head(inbox[c]).t = "changed"
  /\ accessToken' = [accessToken EXCEPT ![c] = OnChangedAccess(Head(inbox[c]), @)]
  /\ refreshToken' = [refreshToken EXCEPT ![c] = OnChangedRefresh(Head(inbox[c]), @)]
  /\ inbox' = [inbox EXCEPT ![c] = Tail(inbox[c])]
  /\ UNCHANGED <<store, up, refreshPromise, req, outstanding, minted,
                 oauthState, flow>>
  /\ UNCHANGED <<domVars, configVars, timerVars, pageVars, selectionVars,
                 loggedOut>>

\* logout() with its await, one call at a time: the cells are cleared, the
\* keys are removed and the caller is resumed when the removal has been
\* applied.
LogoutAwaited(c) ==
  /\ up[c]
  /\ loggedOut # "called"
  /\ accessToken' = [accessToken EXCEPT ![c] = 0]
  /\ refreshToken' = [refreshToken EXCEPT ![c] = 0]
  /\ store' = Empty
  /\ inbox' = StoreOp(store, Empty, c, <<Completion("logoutDone", 0)>>)
  /\ loggedOut' = "called"
  /\ UNCHANGED <<up, refreshPromise, req, outstanding, minted, oauthState,
                 flow>>
  /\ UNCHANGED <<domVars, configVars, timerVars, pageVars, selectionVars>>

\* logout() returns.  A login that has written its tokens since the call is
\* a new session.
LogoutDone(c) ==
  /\ up[c] /\ inbox[c] # <<>> /\ Head(inbox[c]).t = "logoutDone"
  /\ inbox' = [inbox EXCEPT ![c] = Tail(inbox[c])]
  /\ loggedOut' = IF loggedOut = "called" THEN "done" ELSE loggedOut
  /\ UNCHANGED <<store, accessToken, refreshToken, up, refreshPromise, req,
                 outstanding, minted, oauthState, flow>>
  /\ UNCHANGED <<domVars, configVars, timerVars, pageVars, selectionVars>>

\* logout(): clear the cells, remove the keys.
Logout(c) ==
  /\ up[c]
  /\ accessToken' = [accessToken EXCEPT ![c] = 0]
  /\ refreshToken' = [refreshToken EXCEPT ![c] = 0]
  /\ store' = Empty
  /\ inbox' = StoreOp(store, Empty, c, <<>>)
  /\ UNCHANGED <<up, refreshPromise, req, outstanding, minted, oauthState,
                 flow>>
  /\ UNCHANGED <<domVars, configVars, timerVars, pageVars, selectionVars,
                 loggedOut>>

\* refreshAccessToken(): `if (refreshPromise)`.
InFlightNoGuard(c) == FALSE

InFlight(c) == refreshPromise[c].phase # "none"

\* api.ts: `originalRequest._retry = true`.
MarkRetryForgotten(r) == r

MarkRetry(r) == [r EXCEPT !.retry = TRUE]

\* api.ts: the Authorization header of the retried request.
RetryAuthorization(cell, old) == cell

\* refreshAccessToken(): the object passed to storage.local.set.
RefreshWriteKeepsOld(data, rt) == Pair(data, rt)

RefreshWrite(data, rt) == Pair(data, data)

\* refreshAccessToken() without a refresh token: what is left in the store.
NoTokenStoreKept(old) == old

NoTokenStore(old) == Empty

\* refreshAccessToken(), catch block: the value both cells are set to.
FailureCellKept(old) == old

FailureCell(old) == 0

\* apiClient(): a request is sent with the access token of the cell.
ApiRequest(c, k) ==
  /\ up[c]
  /\ req[c][k].st \in {"idle", "ok", "failed401", "failedRefresh", "failedOther"}
  /\ req' = [req EXCEPT ![c][k] =
       [IdleReq EXCEPT !.st = "sent", !.n = 1, !.tok = accessToken[c]]]
  /\ UNCHANGED <<store, accessToken, refreshToken, up, inbox, refreshPromise,
                 outstanding, minted, oauthState, flow>>
  /\ UNCHANGED <<domVars, configVars, timerVars, pageVars, selectionVars,
                 loggedOut>>

\* The request succeeds.
ApiOk(c, k) ==
  /\ req[c][k].st = "sent"
  /\ req' = [req EXCEPT ![c][k] = Settled(@, "ok")]
  /\ UNCHANGED <<store, accessToken, refreshToken, up, inbox, refreshPromise,
                 outstanding, minted, oauthState, flow>>
  /\ UNCHANGED <<domVars, configVars, timerVars, pageVars, selectionVars,
                 loggedOut>>

\* The interceptor removes the tokens on any error.
ApiErrorLogout(c, k) ==
  /\ req[c][k].st = "sent"
  /\ req' = [req EXCEPT ![c][k] = Settled(@, "failedOther")]
  /\ store' = Empty
  /\ UNCHANGED <<accessToken, refreshToken, up, inbox, refreshPromise,
                 outstanding, minted, oauthState, flow>>
  /\ UNCHANGED <<domVars, configVars, timerVars, pageVars, selectionVars,
                 loggedOut>>

\* The interceptor rejects with the error: a status other than 401.
ApiError(c, k) ==
  /\ req[c][k].st = "sent"
  /\ req' = [req EXCEPT ![c][k] = Settled(@, "failedOther")]
  /\ UNCHANGED <<store, accessToken, refreshToken, up, inbox, refreshPromise,
                 outstanding, minted, oauthState, flow>>
  /\ UNCHANGED <<domVars, configVars, timerVars, pageVars, selectionVars,
                 loggedOut>>

\* The interceptor rejects with the error: a 401 of a request marked _retry.
Api401Final(c, k) ==
  /\ req[c][k].st = "sent" /\ req[c][k].retry
  /\ req' = [req EXCEPT ![c][k] = Settled(@, "failed401")]
  /\ UNCHANGED <<store, accessToken, refreshToken, up, inbox, refreshPromise,
                 outstanding, minted, oauthState, flow>>
  /\ UNCHANGED <<domVars, configVars, timerVars, pageVars, selectionVars,
                 loggedOut>>

\* A first 401; refreshAccessToken() returns the pending refreshPromise.
Api401Join(c, k) ==
  /\ req[c][k].st = "sent" /\ ~req[c][k].retry
  /\ InFlight(c)
  /\ req' = [req EXCEPT ![c][k] =
       [MarkRetry(@) EXCEPT !.st = "awaitRefresh", !.path = "join"]]
  /\ UNCHANGED <<store, accessToken, refreshToken, up, inbox, refreshPromise,
                 outstanding, minted, oauthState, flow>>
  /\ UNCHANGED <<domVars, configVars, timerVars, pageVars, selectionVars,
                 loggedOut>>

\* A first 401; refreshAccessToken() finds no refresh token: clears the
\* cells, removes the keys and throws after the remove.
Api401NoToken(c, k) ==
  /\ req[c][k].st = "sent" /\ ~req[c][k].retry
  /\ ~InFlight(c)
  /\ refreshToken[c] = 0
  /\ accessToken' = [accessToken EXCEPT ![c] = 0]
  /\ refreshToken' = [refreshToken EXCEPT ![c] = 0]
  /\ store' = NoTokenStore(store)
  /\ inbox' = StoreOp(store, store', c, <<Completion("removeDone", k)>>)
  /\ req' = [req EXCEPT ![c][k] =
       [MarkRetry(@) EXCEPT !.st = "awaitRemove", !.path = "notoken"]]
  /\ UNCHANGED <<up, refreshPromise, outstanding, minted, oauthState, flow>>
  /\ UNCHANGED <<domVars, configVars, timerVars, pageVars, selectionVars,
                 loggedOut>>

\* A first 401; refreshAccessToken() sends REFRESH_TOKEN and sets
\* refreshPromise.
Api401Start(c, k) ==
  /\ req[c][k].st = "sent" /\ ~req[c][k].retry
  /\ ~InFlight(c)
  /\ refreshToken[c] # 0
  /\ outstanding' = [outstanding EXCEPT ![c] = @ + 1]
  /\ refreshPromise' = [refreshPromise EXCEPT ![c] =
       [phase |-> "sent", rt |-> refreshToken[c], data |-> 0]]
  /\ req' = [req EXCEPT ![c][k] =
       [MarkRetry(@) EXCEPT !.st = "awaitRefresh", !.path = "start"]]
  /\ UNCHANGED <<store, accessToken, refreshToken, up, inbox, minted,
                 oauthState, flow>>
  /\ UNCHANGED <<domVars, configVars, timerVars, pageVars, selectionVars,
                 loggedOut>>

\* Background, REFRESH_TOKEN: the answer given to sendResponse.  The handler
\* writes nothing to the store.
RefreshTokenHandler(ok, n) == [success |-> ok, data |-> IF ok THEN n ELSE 0]

\* The answer has success = true: the context writes the tokens to the store.
RefreshOk(c) ==
  /\ refreshPromise[c].phase = "sent"
  /\ minted < MaxTok
  /\ LET response == RefreshTokenHandler(TRUE, minted + 1)
         new == RefreshWrite(response.data, refreshPromise[c].rt)
     IN  /\ minted' = minted + 1
         /\ store' = new
         /\ inbox' = StoreOp(store, new, c, <<Completion("setDone", 0)>>)
         /\ refreshPromise' = [refreshPromise EXCEPT ![c].phase = "setting",
                                                     ![c].data = response.data]
  /\ outstanding' = [outstanding EXCEPT ![c] = @ - 1]
  /\ UNCHANGED <<accessToken, refreshToken, up, req, oauthState, flow>>
  /\ UNCHANGED <<domVars, configVars, timerVars, pageVars, selectionVars,
                 loggedOut>>

\* The answer has success = false or the exchange throws: the catch block.
RefreshFail(c) ==
  /\ refreshPromise[c].phase = "sent"
  /\ accessToken' = [accessToken EXCEPT ![c] = FailureCell(@)]
  /\ refreshToken' = [refreshToken EXCEPT ![c] = FailureCell(@)]
  /\ store' = Empty
  /\ inbox' = StoreOp(store, Empty, c, <<Completion("removeDone", 0)>>)
  /\ refreshPromise' = [refreshPromise EXCEPT ![c].phase = "removing"]
  /\ outstanding' = [outstanding EXCEPT ![c] = @ - 1]
  /\ UNCHANGED <<up, req, minted, oauthState, flow>>
  /\ UNCHANGED <<domVars, configVars, timerVars, pageVars, selectionVars,
                 loggedOut>>

\* The requests awaiting the refreshPromise of context c.
Awaiting(c, k) == req[c][k].st = "awaitRefresh"

\* After storage.local.set: the cells take the new tokens, refreshPromise is
\* reset and the promise resolves; every awaiting request is retried.
RefreshSetDone(c) ==
  /\ up[c] /\ inbox[c] # <<>> /\ Head(inbox[c]).t = "setDone"
  /\ accessToken' = [accessToken EXCEPT ![c] = refreshPromise[c].data]
  /\ refreshToken' = [refreshToken EXCEPT ![c] = refreshPromise[c].data]
  /\ inbox' = [inbox EXCEPT ![c] = Tail(inbox[c])]
  /\ refreshPromise' = [refreshPromise EXCEPT ![c] = NoPromise]
  /\ req' = [req EXCEPT ![c] = [k \in Reqs |->
       IF Awaiting(c, k)
       THEN [req[c][k] EXCEPT !.st = "sent", !.n = @ + 1,
               !.tok = RetryAuthorization(accessToken'[c], @),
               !.newTok = refreshPromise[c].data]
       ELSE req[c][k]]]
  /\ UNCHANGED <<store, up, outstanding, minted, oauthState, flow>>
  /\ UNCHANGED <<domVars, configVars, timerVars, pageVars, selectionVars,
                 loggedOut>>

\* After storage.local.remove in the catch block: the error is rethrown,
\* refreshPromise is reset and the promise rejects.
RefreshRemoveDone(c) ==
  /\ up[c] /\ inbox[c] # <<>>
  /\ Head(inbox[c]).t = "removeDone" /\ Head(inbox[c]).k = 0
  /\ inbox' = [inbox EXCEPT ![c] = Tail(inbox[c])]
  /\ refreshPromise' = [refreshPromise EXCEPT ![c] = NoPromise]
  /\ req' = [req EXCEPT ![c] = [k \in Reqs |->
       IF Awaiting(c, k) THEN Settled(req[c][k], "failedRefresh")
       ELSE req[c][k]]]
  /\ UNCHANGED <<store, accessToken, refreshToken, up, outstanding, minted,
                 oauthState, flow>>
  /\ UNCHANGED <<domVars, configVars, timerVars, pageVars, selectionVars,
                 loggedOut>>

\* After storage.local.remove on the no-refresh-token path: the throw.
NoTokenRemoveDone(c) ==
  /\ up[c] /\ inbox[c] # <<>>
  /\ Head(inbox[c]).t = "removeDone" /\ Head(inbox[c]).k > 0
  /\ inbox' = [inbox EXCEPT ![c] = Tail(inbox[c])]
  /\ req' = [req EXCEPT ![c][Head(inbox[c]).k] = Settled(@, "failedRefresh")]
  /\ UNCHANGED <<store, accessToken, refreshToken, up, refreshPromise,
                 outstanding, minted, oauthState, flow>>
  /\ UNCHANGED <<domVars, configVars, timerVars, pageVars, selectionVars,
                 loggedOut>>

\* ------------------------------------------------ background: START_OAUTH_FLOW
\* responses counts the calls of sendResponse for the request.
IdleFlow == [phase |-> "idle", ok |-> FALSE, wrote |-> FALSE, bad |-> FALSE,
             responses |-> 0]

\* What launchWebAuthFlow hands to the callback: runtime.lastError, the
\* response URL and its error, state and code parameters (state 0: absent).
Callbacks ==
  { cb \in [lastError : BOOLEAN, url : BOOLEAN, error : BOOLEAN,
            state : CallbackStates, code : BOOLEAN] :
      (cb.lastError \/ ~cb.url) => (~cb.error /\ cb.state = 0 /\ ~cb.code) }

\* The checks of the callback before the token exchange.
CallbackAcceptedAnyState(cb, os) ==
  ~cb.lastError /\ cb.url /\ ~cb.error /\ cb.code

CallbackAccepted(cb, os) ==
  ~cb.lastError /\ cb.url /\ ~cb.error /\ cb.state = os /\ cb.code

\* oauthVerifier is assigned in the statement after oauthState and nowhere
\* else, so it always belongs to the request that oauthState belongs to.  The
\* callback reads it for the body of the token exchange in the step in which
\* it has compared the state.
oauthVerifier == oauthState

\* The message handler: PKCE initialisation and launchWebAuthFlow.
StartOAuthFlow(f) ==
  /\ flow[f].phase \in {"idle", "done"}
  /\ oauthState' = f
  /\ flow' = [flow EXCEPT ![f] = [IdleFlow EXCEPT !.phase = "redirect"]]
  /\ UNCHANGED <<store, accessToken, refreshToken, up, inbox, refreshPromise,
                 req, outstanding, minted>>
  /\ UNCHANGED <<domVars, configVars, timerVars, pageVars, selectionVars,
                 loggedOut>>

\* The launchWebAuthFlow callback, up to the token exchange.  `bad` records
\* whether the callback carried an error, a foreign state or no code.
OAuthCallback(f, cb) ==
  /\ flow[f].phase = "redirect"
  /\ flow' = [flow EXCEPT ![f] =
       IF CallbackAccepted(cb, oauthState)
       THEN [@ EXCEPT !.phase = "exchange",
               !.bad = (cb.error \/ cb.state # oauthState \/ ~cb.code)]
       ELSE [@ EXCEPT !.phase = "done", !.responses = @ + 1,
               !.bad = (cb.error \/ cb.state # oauthState \/ ~cb.code)]]
  /\ UNCHANGED <<store, accessToken, refreshToken, up, inbox, refreshPromise,
                 req, outstanding, minted, oauthState>>
  /\ UNCHANGED <<domVars, configVars, timerVars, pageVars, selectionVars,
                 loggedOut>>

\* The catch block logs the error and sends no response.
OAuthExchangeFailSilent(f) ==
  /\ flow[f].phase = "exchange"
  /\ flow' = [flow EXCEPT ![f].phase = "done", ![f].bad = TRUE]
  /\ UNCHANGED <<store, accessToken, refreshToken, up, inbox, refreshPromise,
                 req, outstanding, minted, oauthState>>
  /\ UNCHANGED <<domVars, configVars, timerVars, pageVars, selectionVars,
                 loggedOut>>

\* The token exchange fails (not ok, or the fetch throws).
OAuthExchangeFail(f) ==
  /\ flow[f].phase = "exchange"
  /\ flow' = [flow EXCEPT ![f].phase = "done", ![f].bad = TRUE,
                          ![f].responses = @ + 1]
  /\ UNCHANGED <<store, accessToken, refreshToken, up, inbox, refreshPromise,
                 req, outstanding, minted, oauthState>>
  /\ UNCHANGED <<domVars, configVars, timerVars, pageVars, selectionVars,
                 loggedOut>>

\* The token exchange succeeds: the tokens are written to the store.
OAuthExchangeOk(f) ==
  /\ flow[f].phase = "exchange"
  /\ minted < MaxTok
  /\ minted' = minted + 1
  /\ store' = Pair(minted + 1, minted + 1)
  /\ inbox' = StoreOp(store, Pair(minted + 1, minted + 1), "background", <<>>)
  /\ flow' = [flow EXCEPT ![f].phase = "storing", ![f].wrote = TRUE]
  /\ loggedOut' = "no"
  /\ UNCHANGED <<accessToken, refreshToken, up, refreshPromise, req, outstanding,
                 oauthState>>
  /\ UNCHANGED <<domVars, configVars, timerVars, pageVars, selectionVars>>

\* After storage.local.set: sendResponse({ success: true }).
OAuthStored(f) ==
  /\ flow[f].phase = "storing"
  /\ flow' = [flow EXCEPT ![f].phase = "done", ![f].ok = TRUE,
                          ![f].responses = @ + 1]
  /\ UNCHANGED <<store, accessToken, refreshToken, up, inbox, refreshPromise,
                 req, outstanding, minted, oauthState>>
  /\ UNCHANGED <<domVars, configVars, timerVars, pageVars, selectionVars,
                 loggedOut>>

\* ------------------------------------------------------------ SpecToken
InitToken ==
  /\ store \in {Empty, Pair(1, 1)}
  /\ accessToken = [c \in Contexts |-> 0]
  /\ refreshToken = [c \in Contexts |-> 0]
  /\ up = [c \in Contexts |-> FALSE]
  /\ inbox = [c \in Contexts |-> <<>>]
  /\ refreshPromise = [c \in Contexts |-> NoPromise]
  /\ req = [c \in Contexts |-> [k \in Reqs |-> IdleReq]]
  /\ outstanding = [c \in Contexts |-> 0]
  /\ minted = 1
  /\ oauthState = 0
  /\ flow = [f \in Flows |-> IdleFlow]
  /\ loggedOut = "no"
  /\ DomIdle /\ ConfigIdle /\ TimerIdle /\ PageIdle /\ SelectionIdle

\* The steps of request slot k of context c.
RequestStep(c, k) ==
  \/ ApiRequest(c, k)
  \/ ApiOk(c, k)
  \/ ApiError(c, k)
  \/ Api401Final(c, k)
  \/ Api401Join(c, k)
  \/ Api401NoToken(c, k)
  \/ Api401Start(c, k)

\* The steps of the token store of context c.
ContextStep(c) ==
  \/ StartContext(c)
  \/ LoadTokensDone(c)
  \/ OnChanged(c)
  \/ RefreshOk(c)
  \/ RefreshFail(c)
  \/ RefreshSetDone(c)
  \/ RefreshRemoveDone(c)
  \/ NoTokenRemoveDone(c)

\* The steps of the background process.
BackgroundStep ==
  \/ \E f \in DOMAIN flow : StartOAuthFlow(f)
  \/ \E f \in DOMAIN flow, cb \in Callbacks : OAuthCallback(f, cb)
  \/ \E f \in DOMAIN flow : OAuthExchangeFail(f)
  \/ \E f \in DOMAIN flow : OAuthExchangeOk(f)
  \/ \E f \in DOMAIN flow : OAuthStored(f)

\* The steps of a context that has one request at a time.
SingleRequestStep(c) ==
  \/ ApiRequest(c, 1)
  \/ ApiOk(c, 1)
  \/ ApiError(c, 1)
  \/ Api401Final(c, 1)
  \/ Api401NoToken(c, 1)
  \/ Api401Start(c, 1)

\* Popup and content script side by side, one request at a time in each.
NextToken ==
  \/ \E c \in Contexts : ContextStep(c)
  \/ \E c \in Contexts : SingleRequestStep(c)
  \/ Logout("popup")
  \/ BackgroundStep

SpecToken == InitToken /\ [][NextToken]_vars

\* The popup alone, with concurrent requests; logins and logouts go on.
NextRefresh ==
  \/ ContextStep("popup")
  \/ \E k \in Reqs : RequestStep("popup", k)
  \/ Logout("popup")
  \/ BackgroundStep

SpecRefresh == InitToken /\ [][NextRefresh]_vars

\* The popup alone, one request at a time, with logouts that are awaited.
NextLogout ==
  \/ ContextStep("popup")
  \/ SingleRequestStep("popup")
  \/ LogoutAwaited("popup")
  \/ LogoutDone("popup")
  \/ BackgroundStep

SpecLogout == InitToken /\ [][NextLogout]_vars

\* ------------------------------------------------------------- SpecOAuth
\* The background with one START_OAUTH_FLOW message more than the other
\* specifications have: a second request can arrive while the authorization
\* window of the first is open.
LoginFlows == 1..(MaxFlows + 1)

InitOAuth ==
  /\ store \in {Empty, Pair(1, 1)}
  /\ accessToken = [c \in Contexts |-> 0]
  /\ refreshToken = [c \in Contexts |-> 0]
  /\ up = [c \in Contexts |-> FALSE]
  /\ inbox = [c \in Contexts |-> <<>>]
  /\ refreshPromise = [c \in Contexts |-> NoPromise]
  /\ req = [c \in Contexts |-> [k \in Reqs |-> IdleReq]]
  /\ outstanding = [c \in Contexts |-> 0]
  /\ minted = 1
  /\ oauthState = 0
  /\ flow = [f \in LoginFlows |-> IdleFlow]
  /\ loggedOut = "no"
  /\ DomIdle /\ ConfigIdle /\ TimerIdle /\ PageIdle /\ SelectionIdle

\* The cells of the popup, which sends the requests, follow the store.
NextOAuth ==
  \/ BackgroundStep
  \/ StartContext("popup")
  \/ LoadTokensDone("popup")
  \/ OnChanged("popup")
  \/ Logout("popup")

SpecOAuth == InitOAuth /\ [][NextOAuth]_vars

\* The fetch of the token exchange settles and storage.local.set completes.
OAuthFairness ==
  \A f \in LoginFlows :
    /\ WF_vars(OAuthExchangeOk(f) \/ OAuthExchangeFail(f))
    /\ WF_vars(OAuthStored(f))

SpecOAuthFair == SpecOAuth /\ OAuthFairness

\* =========================================================== jira.ts
\* The session is not looked at.
LoggedInUnchecked == TRUE

\* The content script's accessToken cell (oauth.ts), read by jira.ts.
LoggedIn == accessToken["content"] # 0

Put(B, e) == B (+) SetToBag({e})

Take(B, e) == B (-) SetToBag({e})

\* A captured actions wrapper that the host page took out of the document.
Detach(t) == [t EXCEPT !.live = FALSE]

DetachAll(B) ==
  IF B = EmptyBag THEN EmptyBag
  ELSE LET T == {Detach(e) : e \in BagToSet(B)}
       IN  [t \in T |-> CopiesIn(t, B) + CopiesIn([t EXCEPT !.live = TRUE], B)]

\* isJiraIssuePage(): the URL has one of the two issue patterns.
isJiraIssuePage(u) == u # 0

\* The issue key the URL carries: the key of /browse/{key}, or the value of
\* selectedIssue (0: the empty string).
IssueKey(u) == IF u = BoardUrlNoKey THEN 0 ELSE u

\* getJiraIssueInfo(): null off an issue page, else the issue key of the URL.
getJiraIssueInfo(u) ==
  [null |-> ~isJiraIssuePage(u),
   issueKey |-> IF isJiraIssuePage(u) THEN IssueKey(u) ELSE 0]

\* findJiraActionsWrapper()
findJiraActionsWrapper == anchor

\* removeJiraTimeTrackingButton(), and the removal of existingButton in
\* injectJiraTimeTrackingButton: the first element with the wrapper id.
removeJiraTimeTrackingButton(bs) == IF bs = <<>> THEN bs ELSE Tail(bs)

\* Identity of a new element: the least one no element of the document and
\* no click handler refers to.
NewId(bs, cl) ==
  LET used == {bs[j].id : j \in DOMAIN bs} \cup {t.btn : t \in BagToSet(cl)}
  IN  CHOOSE i \in ButtonIds : i \notin used /\ \A j \in 1..(i - 1) : j \in used

\* createJiraTimeTrackingButton(issueDescription, isTracking)
createJiraTimeTrackingButton(id, d, tr) ==
  [id |-> id, desc |-> d, tracking |-> tr, disabled |-> FALSE, ls |-> {}]

\* The click listener closure of one injection.
Closure(d, tr) == [desc |-> d, tracking |-> tr]

\* injectJiraTimeTrackingButton from createJiraTimeTrackingButton on: the
\* control is appended to the captured wrapper (live: the wrapper is still in
\* the document) and the listener goes to getElementById(BUTTON_ID), the
\* first control of the document.
AppendButton(bs, live, d, tr, cl) ==
  LET nb == IF live
            THEN Append(bs, createJiraTimeTrackingButton(NewId(bs, cl), d, tr))
            ELSE bs
  IN  IF nb = <<>> THEN nb
      ELSE [nb EXCEPT ![1].ls = @ \cup {Closure(d, tr)}]

CanAppend(live) == ~live \/ Len(btns) < MaxBtns

\* initializeJira and initializePlane install the watchdog after an
\* injection; initializeLinear has none.
HasWatchdog(p) == p # "linear"

\* observeJiraActionsWrapper(issueDescription): a connected observer.
observeJiraActionsWrapper(d) == [NoObs EXCEPT !.desc = d, !.on = TRUE]

\* observer.disconnect()
Off(o) == [o EXCEPT !.on = FALSE]

\* A disconnected observer with no callback, timer or injection pending.
Inert(o) == ~o.on /\ ~o.sched /\ o.frames = 0 /\ ~o.timer /\ o.pc = "idle"

\* handlePageLoad: actionsWrapperObserver is disconnected and set to null.
Disconnect ==
  IF watch = NoObs \/ Inert(Off(watch)) THEN leaked ELSE Put(leaked, Off(watch))

\* handlePageLoad: actionsWrapperObserver = observeJiraActionsWrapper(d);
\* the observer referenced before (w) stays connected.
Install(w, lk, d) ==
  IF HasWatchdog(platform)
  THEN /\ watch' = observeJiraActionsWrapper(d)
       /\ leaked' = IF w = NoObs THEN lk ELSE Put(lk, w)
       /\ BagCardinality(leaked') <= MaxObs
  ELSE watch' = w /\ leaked' = lk

WaitTask == [pc |-> "wait", live |-> FALSE, desc |-> 0]

\* handlePageLoad from the resolution of waitForJiraElement on, at URL u:
\* getJiraIssueInfo, injectJiraTimeTrackingButton up to its await (or to its
\* end when it does not await), then the observer.
LoadFound(u, w, lk, lds) ==
  LET issueInfo == getJiraIssueInfo(u)
      d == issueInfo.issueKey
  IN  IF issueInfo.null
      THEN watch' = w /\ leaked' = lk /\ loads' = lds /\ btns' = btns
      ELSE IF btns # <<>>
      THEN Install(w, lk, d) /\ loads' = lds /\ btns' = btns
      ELSE IF LoggedIn
      THEN /\ BagCardinality(lds) < MaxTasks
           /\ loads' = Put(lds, [pc |-> "query", live |-> TRUE, desc |-> d])
           /\ watch' = w /\ leaked' = lk /\ btns' = btns
      ELSE /\ btns' = AppendButton(btns, TRUE, d, FALSE, clicks)
           /\ Install(w, lk, d)
           /\ loads' = lds

\* handlePageLoad() at URL u, up to its first suspension.
handlePageLoad(u) ==
  LET lk == Disconnect
  IN  /\ BagCardinality(lk) <= MaxObs
      /\ handled0' = ~isJiraIssuePage(u)
      /\ handled' = TRUE
      /\ IF ~isJiraIssuePage(u)
         THEN /\ btns' = removeJiraTimeTrackingButton(btns)
              /\ watch' = NoObs /\ leaked' = lk /\ loads' = loads
         ELSE IF btns # <<>>
         THEN watch' = NoObs /\ leaked' = lk /\ loads' = loads /\ btns' = btns
         ELSE IF ~findJiraActionsWrapper
         THEN /\ BagCardinality(loads) < MaxTasks
              /\ loads' = Put(loads, WaitTask)
              /\ watch' = NoObs /\ leaked' = lk /\ btns' = btns
         ELSE LoadFound(u, NoObs, lk, loads)

\* initializeJira(): the initial handlePageLoad and observeJiraUrlChanges.
InitializeJira ==
  /\ ~started
  /\ started' = TRUE
  /\ lastUrl' = url
  /\ handlePageLoad(url)
  /\ UNCHANGED <<url, anchor, clicks, active, tokenVars, configVars, timerVars, pageVars, selectionVars,
                 platform, alert, removed>>

\* observeJiraUrlChanges: the mutation observer sees a new URL.
UrlObserver ==
  /\ started /\ url # lastUrl
  /\ lastUrl' = url
  /\ handlePageLoad(url)
  /\ UNCHANGED <<started, url, anchor, clicks, active, tokenVars, configVars, timerVars, pageVars, selectionVars,
                 platform, alert, removed>>

\* Back/forward navigation to URL u: the popstate listener calls
\* handlePageLoad; lastUrl is not updated.
Popstate(u) ==
  /\ started /\ u # url
  /\ url' = u
  /\ handlePageLoad(u)
  /\ UNCHANGED <<started, lastUrl, anchor, clicks, active, tokenVars, configVars, timerVars, pageVars, selectionVars,
                 platform, alert, removed>>

\* The single-page application moves to URL u (history.pushState).
Navigate(u) ==
  /\ started /\ u # url
  /\ url' = u
  /\ handled0' = FALSE
  /\ handled' = FALSE
  /\ UNCHANGED <<started, lastUrl, anchor, btns, loads, clicks, watch,
                 leaked, active, tokenVars, configVars, timerVars, pageVars, selectionVars,
                 platform, alert, removed>>

\* waitForElement: a check finds the actions wrapper; handlePageLoad goes on.
WaitFound(t) ==
  /\ t.pc = "wait" /\ findJiraActionsWrapper
  /\ LoadFound(url, watch, leaked, Take(loads, t))
  /\ UNCHANGED <<started, url, lastUrl, handled0, handled, anchor, clicks, active,
                 tokenVars, configVars, timerVars, pageVars, selectionVars,
                 platform, alert, removed>>

LoadCaughtAlert(al) == "failed"

\* handlePageLoad, catch block: the rejection is logged with console.error;
\* nothing is shown to the user.
LoadCaught(al) == al

\* waitForElement: the timeout passes without the wrapper and the promise is
\* rejected; handlePageLoad catches the rejection and ends.
WaitTimeout(t) ==
  /\ t.pc = "wait" /\ ~findJiraActionsWrapper
  /\ loads' = Take(loads, t)
  /\ alert' = LoadCaught(alert)
  /\ UNCHANGED <<started, url, lastUrl, handled0, handled, anchor, btns, clicks,
                 watch, leaked, active, tokenVars, configVars, timerVars, pageVars, selectionVars,
                 platform, removed>>

\* injectJiraTimeTrackingButton called by handlePageLoad resumes after
\* getCurrentTimeEntry (ok: it returned) and handlePageLoad installs the
\* observer.
LoadQueryDone(t, ok) ==
  /\ t.pc = "query" /\ CanAppend(t.live)
  /\ btns' = AppendButton(btns, t.live, t.desc, ok /\ active, clicks)
  /\ Install(watch, leaked, t.desc)
  /\ loads' = Take(loads, t)
  /\ UNCHANGED <<started, url, lastUrl, handled0, handled, anchor, clicks, active,
                 tokenVars, configVars, timerVars, pageVars, selectionVars,
                 platform, alert, removed>>

\* The observers alive: the one initializeJira references and the others.
Observers ==
  (IF watch = NoObs THEN {} ELSE {<<"w", watch>>})
    \cup {<<"l", o>> : o \in BagToSet(leaked)}

\* Observer x becomes o2; an inert one is dropped.
UpdateObs(x, o2) ==
  IF x[1] = "w"
  THEN watch' = o2 /\ leaked' = leaked
  ELSE /\ watch' = watch
       /\ leaked' = IF Inert(o2) THEN Take(leaked, x[2])
                    ELSE Put(Take(leaked, x[2]), o2)

\* The mutation callback hands a check to requestAnimationFrame each time.
NotifyUnthrottled(o) ==
  IF o.on THEN [o EXCEPT !.sched = TRUE, !.frames = @ + 1] ELSE o

\* A mutation below the observed main content: the callback of a connected
\* observer hands a check to requestAnimationFrame unless checkScheduled.
Notify(o) ==
  IF o.on /\ ~o.sched THEN [o EXCEPT !.sched = TRUE, !.frames = @ + 1] ELSE o

\* observeJiraActionsWrapper: the mutation callback schedules one check per
\* animation frame.
ObsMutation(x) ==
  /\ x[2].on /\ ~x[2].sched
  /\ UpdateObs(x, Notify(x[2]))
  /\ UNCHANGED <<started, url, lastUrl, handled0, handled, anchor, btns, loads,
                 clicks, active, tokenVars, configVars, timerVars, pageVars, selectionVars,
                 platform, alert, removed>>

\* observeJiraActionsWrapper: checkAndReinject up to its suspension.
checkAndReinject(x) ==
  LET o == [x[2] EXCEPT !.sched = FALSE, !.frames = @ - 1]
  IN  /\ x[2].frames > 0
      /\ IF o.reinj \/ btns # <<>> \/ ~isJiraIssuePage(url)
         THEN UpdateObs(x, o) /\ btns' = btns
         ELSE IF ~findJiraActionsWrapper
         THEN /\ UpdateObs(x, [o EXCEPT !.reinj = TRUE, !.timer = TRUE])
              /\ btns' = btns
         ELSE IF LoggedIn
         THEN /\ UpdateObs(x, [o EXCEPT !.reinj = TRUE, !.pc = "query",
                                        !.live = TRUE])
              /\ btns' = btns
         ELSE /\ btns' = AppendButton(btns, TRUE, o.desc, FALSE, clicks)
              /\ UpdateObs(x, [o EXCEPT !.reinj = TRUE, !.timer = TRUE])
      /\ UNCHANGED <<started, url, lastUrl, handled0, handled, anchor, loads, clicks,
                     active, tokenVars, configVars, timerVars, pageVars, selectionVars,
                 platform, alert, removed>>

\* The timer is started at the end of the try block, not in a finally block.
ObsQueryDoneNoFinally(x, ok) ==
  /\ x[2].pc = "query" /\ CanAppend(x[2].live)
  /\ btns' = AppendButton(btns, x[2].live, x[2].desc, ok /\ active, clicks)
  /\ UpdateObs(x, [x[2] EXCEPT !.pc = "idle", !.live = FALSE, !.timer = ok])
  /\ UNCHANGED <<started, url, lastUrl, handled0, handled, anchor, loads, clicks,
                 active, tokenVars, configVars, timerVars, pageVars, selectionVars,
                 platform, alert, removed>>

\* injectJiraTimeTrackingButton called by checkAndReinject resumes after
\* getCurrentTimeEntry; the finally block starts the 100 ms timer.
ObsQueryDone(x, ok) ==
  /\ x[2].pc = "query" /\ CanAppend(x[2].live)
  /\ btns' = AppendButton(btns, x[2].live, x[2].desc, ok /\ active, clicks)
  /\ UpdateObs(x, [x[2] EXCEPT !.pc = "idle", !.live = FALSE, !.timer = TRUE])
  /\ UNCHANGED <<started, url, lastUrl, handled0, handled, anchor, loads, clicks,
                 active, tokenVars, configVars, timerVars, pageVars, selectionVars,
                 platform, alert, removed>>

\* The timer of checkAndReinject resets isReinjecting.
ObsTimer(x) ==
  /\ x[2].timer
  /\ UpdateObs(x, [x[2] EXCEPT !.timer = FALSE, !.reinj = FALSE])
  /\ UNCHANGED <<started, url, lastUrl, handled0, handled, anchor, btns, loads,
                 clicks, active, tokenVars, configVars, timerVars, pageVars, selectionVars,
                 platform, alert, removed>>

FinallyNothing(bs, t) == bs

\* handleJiraTrackingClick, finally block: the captured button is enabled.
Finally(bs, t) ==
  IF \E j \in DOMAIN bs : bs[j].id = t.btn
  THEN [bs EXCEPT ![CHOOSE j \in DOMAIN bs : bs[j].id = t.btn].disabled = FALSE]
  ELSE bs

\* The handler started by one listener of a click.
ClickTask(l, b) ==
  [pc |-> IF l.tracking THEN "stopQuery" ELSE "startStorage",
   desc |-> l.desc, tracking |-> l.tracking, btn |-> b, live |-> FALSE]

\* A click on the i-th control runs handleJiraTrackingClick for each of its
\* listeners up to the first await: the first control of the document is
\* captured and disabled; without an access token the handler alerts and
\* enables it again.
Click(i) ==
  /\ i \in DOMAIN btns /\ ~btns[i].disabled /\ btns[i].ls # {}
  /\ IF ~LoggedIn
     THEN /\ btns' = [btns EXCEPT ![1].disabled = FALSE]
          /\ clicks' = clicks
          /\ alert' = "login"
     ELSE /\ btns' = [btns EXCEPT ![1].disabled = TRUE]
          /\ alert' = alert
          /\ clicks' = clicks (+)
               SetToBag({ClickTask(l, btns[1].id) : l \in btns[i].ls})
          /\ BagCardinality(clicks') <= MaxTasks
  /\ UNCHANGED <<started, url, lastUrl, handled0, handled, anchor, loads, watch,
                 leaked, active, tokenVars, configVars, timerVars, pageVars, selectionVars,
                 platform, removed>>

\* handleJiraTrackingClick, catch block: a rejected request is logged and
\* reported with alert().
Caught(failed, al) == IF failed THEN "failed" ELSE al

\* handleJiraTrackingClick leaves through its finally block.
ClickEnd(t) ==
  /\ btns' = Finally(btns, t)
  /\ clicks' = Take(clicks, t)

\* handleJiraTrackingClick, "Refresh the button": the existing control is
\* removed and a new one injected with skipExistingCheck.
ClickRefresh(t) ==
  IF ~findJiraActionsWrapper
  THEN ClickEnd(t)
  ELSE IF LoggedIn
  THEN /\ btns' = removeJiraTimeTrackingButton(btns)
       /\ clicks' = Put(Take(clicks, t), [t EXCEPT !.pc = "reQuery", !.live = TRUE])
  ELSE /\ btns' = Finally(AppendButton(removeJiraTimeTrackingButton(btns),
                                       TRUE, t.desc, FALSE, clicks), t)
       /\ clicks' = Take(clicks, t)

\* Stop path: getCurrentTimeEntry answers (ok) or fails.
ClickStopQuery(t, ok) ==
  /\ t.pc = "stopQuery"
  /\ alert' = Caught(~ok, alert)
  /\ IF ~ok THEN ClickEnd(t)
     ELSE IF active
     THEN /\ clicks' = Put(Take(clicks, t), [t EXCEPT !.pc = "stopUpdate"])
          /\ btns' = btns
     ELSE ClickRefresh(t)
  /\ UNCHANGED <<started, url, lastUrl, handled0, handled, anchor, loads, watch,
                 leaked, active, tokenVars, configVars, timerVars, pageVars, selectionVars,
                 platform, removed>>

\* Stop path: updateTimeEntry answers (ok) or fails.
ClickStopUpdate(t, ok) ==
  /\ t.pc = "stopUpdate"
  /\ alert' = Caught(~ok, alert)
  /\ IF ok THEN active' = FALSE /\ ClickRefresh(t)
     ELSE active' = active /\ ClickEnd(t)
  /\ UNCHANGED <<started, url, lastUrl, handled0, handled, anchor, loads, watch,
                 leaked, tokenVars, configVars, timerVars, pageVars, selectionVars,
                 platform, removed>>

\* What storage.local.get can answer for current_organization_id and
\* currentMembershipId (0: the key is absent).
StorageResults ==
  {[current_organization_id |-> o, currentMembershipId |-> m] : o, m \in {0, 1}}

NoOrganizationOrgOnly(storage) == storage.current_organization_id = 0

\* handleJiraTrackingClick: !organizationId || !membershipId
NoOrganization(storage) ==
  storage.current_organization_id = 0 \/ storage.currentMembershipId = 0

\* Start path: storage.local.get answers; without an organization or a
\* membership the handler alerts and returns, else it sends createTimeEntry.
ClickStartStorage(t, storage) ==
  /\ t.pc = "startStorage"
  /\ IF NoOrganization(storage)
     THEN alert' = "organization" /\ ClickEnd(t)
     ELSE /\ clicks' = Put(Take(clicks, t), [t EXCEPT !.pc = "startCreate"])
          /\ btns' = btns
          /\ alert' = alert
  /\ UNCHANGED <<started, url, lastUrl, handled0, handled, anchor, loads, watch,
                 leaked, active, tokenVars, configVars, timerVars, pageVars, selectionVars,
                 platform, removed>>

\* Start path: createTimeEntry answers (ok) or fails.
ClickStartCreate(t, ok) ==
  /\ t.pc = "startCreate"
  /\ alert' = Caught(~ok, alert)
  /\ IF ok THEN active' = TRUE /\ ClickRefresh(t)
     ELSE active' = active /\ ClickEnd(t)
  /\ UNCHANGED <<started, url, lastUrl, handled0, handled, anchor, loads, watch,
                 leaked, tokenVars, configVars, timerVars, pageVars, selectionVars,
                 platform, removed>>

\* injectJiraTimeTrackingButton called by the click handler resumes after
\* getCurrentTimeEntry; then the finally block.
ClickReQuery(t, ok) ==
  /\ t.pc = "reQuery" /\ CanAppend(t.live)
  /\ btns' = Finally(AppendButton(btns, t.live, t.desc, ok /\ active, clicks), t)
  /\ clicks' = Take(clicks, t)
  /\ UNCHANGED <<started, url, lastUrl, handled0, handled, anchor, loads, watch,
                 leaked, active, tokenVars, configVars, timerVars, pageVars, selectionVars,
                 platform, alert, removed>>

\* ------------------------------------------------- the host page and others
\* A mutation reaches every observer of the bag.
NotifyAll(B) ==
  IF B = EmptyBag THEN EmptyBag
  ELSE LET S == BagToSet(B)
           T == {Notify(e) : e \in S}
       IN  [t \in T |->
              BagCardinality([e \in {x \in S : Notify(x) = t} |-> CopiesIn(e, B)])]

\* Jira renders the actions wrapper.
HostRenderAnchor ==
  /\ ~anchor
  /\ anchor' = TRUE
  /\ UNCHANGED <<started, url, lastUrl, handled0, handled, btns, loads, clicks,
                 watch, leaked, active, tokenVars, configVars, timerVars, pageVars, selectionVars,
                 platform, alert, removed>>

\* Jira takes the actions wrapper out of the document (gone: for good, else
\* replaced by a new element), with every control in it.
HostDropAnchor(gone) ==
  /\ anchor
  /\ anchor' = ~gone
  /\ btns' = <<>>
  /\ loads' = DetachAll(loads)
  /\ clicks' = DetachAll(clicks)
  /\ watch' = Notify(Detach(watch))
  /\ leaked' = NotifyAll(DetachAll(leaked))
  /\ removed' = (removed \/ btns # <<>>)
  /\ UNCHANGED <<started, url, lastUrl, handled0, handled, active, tokenVars, configVars, timerVars, pageVars, selectionVars,
                 platform, alert>>

\* Jira re-renders the children of the actions wrapper without the i-th
\* control.
HostRemoveButton(i) ==
  /\ i \in DOMAIN btns
  /\ btns' = SubSeq(btns, 1, i - 1) \o SubSeq(btns, i + 1, Len(btns))
  /\ watch' = Notify(watch)
  /\ leaked' = NotifyAll(leaked)
  /\ removed' = TRUE
  /\ UNCHANGED <<started, url, lastUrl, handled0, handled, anchor, loads, clicks,
                 active, tokenVars, configVars, timerVars, pageVars, selectionVars, platform, alert>>

\* The popup or another tab starts or stops the time entry.
EntryChanged ==
  /\ active' = ~active
  /\ UNCHANGED <<started, url, lastUrl, handled0, handled, anchor, btns, loads,
                 clicks, watch, leaked, tokenVars, configVars, timerVars, pageVars, selectionVars,
                 platform, alert, removed>>

\* The storage listener of oauth.ts sets the content script's accessToken
\* after a login or logout elsewhere.
ContentTokenChanged ==
  /\ accessToken' = [accessToken EXCEPT !["content"] = IF @ = 0 THEN 1 ELSE 0]
  /\ UNCHANGED <<store, refreshToken, up, inbox, refreshPromise, req,
                 outstanding, minted, oauthState, flow, loggedOut, domVars,
                 configVars, timerVars, pageVars, selectionVars>>

\* ------------------------------------------------------------- SpecJira
\* The content script of a tab on one of the platforms ps, before main().
InitPage(ps) ==
  /\ store = Empty
  /\ accessToken \in {[c \in Contexts |-> IF c = "content" THEN a ELSE 0] : a \in {0, 1}}
  /\ refreshToken = [c \in Contexts |-> 0]
  /\ up = [c \in Contexts |-> FALSE]
  /\ inbox = [c \in Contexts |-> <<>>]
  /\ refreshPromise = [c \in Contexts |-> NoPromise]
  /\ req = [c \in Contexts |-> [k \in Reqs |-> IdleReq]]
  /\ outstanding = [c \in Contexts |-> 0]
  /\ minted = 1
  /\ oauthState = 0
  /\ flow = [f \in Flows |-> IdleFlow]
  /\ loggedOut = "no"
  /\ started = FALSE
  /\ url \in Urls
  /\ lastUrl = 0
  /\ handled0 = FALSE
  /\ handled = FALSE
  /\ anchor \in BOOLEAN
  /\ btns = <<>>
  /\ loads = EmptyBag /\ clicks = EmptyBag
  /\ watch = NoObs /\ leaked = EmptyBag
  /\ active \in BOOLEAN
  /\ platform \in ps
  /\ alert = "none"
  /\ removed = FALSE
  /\ ConfigIdle /\ TimerIdle /\ PageIdle /\ SelectionIdle

InitJira == InitPage({"jira"})

InitWatch == InitPage(Platforms)

\* A page load: initializeJira and the continuations of handlePageLoad.
LoadStep ==
  \/ InitializeJira
  \/ \E t \in BagToSet(loads) : WaitFound(t)
  \/ \E t \in BagToSet(loads) : WaitTimeout(t)
  \/ \E t \in BagToSet(loads), ok \in BOOLEAN : LoadQueryDone(t, ok)

\* The host page renders and drops the actions wrapper.
HostStep ==
  \/ HostRenderAnchor
  \/ \E gone \in BOOLEAN : HostDropAnchor(gone)

\* Navigation within the single-page application.
NavigationStep ==
  \/ UrlObserver
  \/ \E u \in NavTargets : Popstate(u)
  \/ \E u \in NavTargets : Navigate(u)

\* The watchdog observers.
WatchStep ==
  \/ \E x \in Observers : ObsMutation(x)
  \/ \E x \in Observers : checkAndReinject(x)
  \/ \E x \in Observers, ok \in BOOLEAN : ObsQueryDone(x, ok)
  \/ \E x \in Observers : ObsTimer(x)

\* Clicks on the injected control.
ClickStep ==
  \/ \E i \in 1..MaxBtns : Click(i)
  \/ \E t \in BagToSet(clicks), ok \in BOOLEAN : ClickStopQuery(t, ok)
  \/ \E t \in BagToSet(clicks), ok \in BOOLEAN : ClickStopUpdate(t, ok)
  \/ \E t \in BagToSet(clicks), r \in StorageResults : ClickStartStorage(t, r)
  \/ \E t \in BagToSet(clicks), ok \in BOOLEAN : ClickStartCreate(t, ok)
  \/ \E t \in BagToSet(clicks), ok \in BOOLEAN : ClickReQuery(t, ok)

\* Page loads and navigation of one tab.
NextJira ==
  \/ LoadStep
  \/ NavigationStep
  \/ HostStep
  \/ EntryChanged
  \/ ContentTokenChanged

SpecJira == InitJira /\ [][NextJira]_vars

\* One tab that stays on its page, with the watchdog.
NextWatch ==
  \/ LoadStep
  \/ WatchStep
  \/ HostStep
  \/ \E i \in 1..MaxBtns : HostRemoveButton(i)
  \/ ContentTokenChanged

SpecWatch == InitWatch /\ [][NextWatch]_vars

\* The steps the browser schedules itself run: the continuations of
\* handlePageLoad, animation frames, answers of the remote and timers. The
\* host page and the user are under no obligation.
WatchFairness ==
  /\ WF_vars(LoadStep)
  /\ WF_vars(\E x \in Observers : checkAndReinject(x))
  /\ WF_vars(\E x \in Observers, ok \in BOOLEAN : ObsQueryDone(x, ok))
  /\ WF_vars(\E x \in Observers : ObsTimer(x))

SpecWatchFair == SpecWatch /\ WatchFairness

\* One tab that stays on its page, with clicks on the control.
NextClick ==
  \/ LoadStep
  \/ ClickStep
  \/ HostStep
  \/ EntryChanged
  \/ ContentTokenChanged

SpecClick == InitJira /\ [][NextClick]_vars

\* One tab that stays on its page, with clicks on the control and the
\* watchdog.
NextClickWatch ==
  \/ LoadStep
  \/ ClickStep
  \/ WatchStep
  \/ HostRenderAnchor

SpecClickWatch == InitJira /\ [][NextClickWatch]_vars

\* ============================================ oauth.ts, instance settings
\* The instances: 1 is https://app.solidtime.io, 2 a self-hosted one.
Hosts == {1, 2}

\* Trailing slashes typed after the endpoint.
MaxSlash == 1

Endpoints == {[host |-> h, slashes |-> n] : h \in Hosts, n \in 0..MaxSlash}

\* useStorage("instance_endpoint", "https://app.solidtime.io")
DefaultEndpoint == [host |-> 1, slashes |-> 0]

\* useStorage("instance_client_id", "019b27e8-a52a-71d8-8d67-071cff97f315")
DefaultClientId == 1

\* Reset to defaults: tempClientId = "9c994748-c593-4a6d-951b-6849c829bc4e"
ResetClientId == 2

\* The client id of a self-hosted instance.
CustomClientId == 3

ClientIds == {DefaultClientId, ResetClientId, CustomClientId}

\* window.localStorage of a context: the popup is a page of the extension,
\* a content script runs in the host page and shares its localStorage.
Origin(c) == IF c = "popup" THEN "extension" ELSE "page"

\* useStorage(key, default): the stored value, or the default, which is
\* then written to the storage.
useStorage(stored, absent, default) == IF stored = absent THEN default ELSE stored

\* Context c loads oauth.ts: endpoint and clientId are read from the
\* localStorage of its origin.
LoadConfig(c) ==
  LET ls == localStorage[Origin(c)]
      e == useStorage(ls.instance_endpoint, Absent, DefaultEndpoint)
      i == useStorage(ls.instance_client_id, 0, DefaultClientId)
  IN  /\ endpoint[c] = Absent
      /\ endpoint' = [endpoint EXCEPT ![c] = e]
      /\ clientId' = [clientId EXCEPT ![c] = i]
      /\ localStorage' = [localStorage EXCEPT ![Origin(c)] =
                            [instance_endpoint |-> e, instance_client_id |-> i]]
      /\ UNCHANGED <<modal, sentTo, saved, tokenVars, domVars, timerVars, pageVars, selectionVars>>

\* The popup is closed, or the tab is reloaded: the context is gone.
UnloadConfig(c) ==
  /\ endpoint[c] # Absent
  /\ endpoint' = [endpoint EXCEPT ![c] = Absent]
  /\ clientId' = [clientId EXCEPT ![c] = 0]
  /\ modal' = IF c = "popup" THEN NoModal ELSE modal
  /\ UNCHANGED <<localStorage, sentTo, saved, tokenVars, domVars, timerVars, pageVars, selectionVars>>

\* Setup of the instance settings modal in the popup.
ModalSetup ==
  /\ endpoint["popup"] # Absent /\ modal = NoModal
  /\ modal' = [tempEndpoint |-> endpoint["popup"],
               tempClientId |-> clientId["popup"], reset |-> FALSE]
  /\ UNCHANGED <<localStorage, endpoint, clientId, sentTo, saved, tokenVars,
                 domVars, timerVars, pageVars, selectionVars>>

\* The user types into the two inputs.
ModalInput(e, i) ==
  /\ modal # NoModal
  /\ modal' = [tempEndpoint |-> e, tempClientId |-> i, reset |-> FALSE]
  /\ UNCHANGED <<localStorage, endpoint, clientId, sentTo, saved, tokenVars,
                 domVars, timerVars, pageVars, selectionVars>>

\* The "Reset to defaults" button.
ResetToDefaults ==
  /\ modal # NoModal
  /\ modal' = [tempEndpoint |-> DefaultEndpoint, tempClientId |-> ResetClientId,
               reset |-> TRUE]
  /\ UNCHANGED <<localStorage, endpoint, clientId, sentTo, saved, tokenVars,
                 domVars, timerVars, pageVars, selectionVars>>

\* submit(): "remove last character if it is a slash".
StripSlash(e) == IF e.slashes > 0 THEN [e EXCEPT !.slashes = @ - 1] ELSE e

\* submit(): the refs of the popup are assigned and useStorage writes them
\* to the localStorage of the extension.
submit ==
  LET e == StripSlash(modal.tempEndpoint)
  IN  /\ modal # NoModal
      /\ modal' = [modal EXCEPT !.tempEndpoint = e]
      /\ endpoint' = [endpoint EXCEPT !["popup"] = e]
      /\ clientId' = [clientId EXCEPT !["popup"] = modal.tempClientId]
      /\ localStorage' = [localStorage EXCEPT ![Origin("popup")] =
                            [instance_endpoint |-> e,
                             instance_client_id |-> modal.tempClientId]]
      /\ saved' = [endpoint |-> e, clientId |-> modal.tempClientId]
      /\ sentTo' = [c \in Contexts |-> NotSent]
      /\ UNCHANGED <<tokenVars, domVars, timerVars, pageVars, selectionVars>>

\* apiClient(): createApiClient(endpoint.value + "/api", ...) in context c.
SendApiRequest(c) ==
  /\ endpoint[c] # Absent
  /\ sentTo' = [sentTo EXCEPT ![c] =
                  [kind |-> "api", endpoint |-> endpoint[c], clientId |-> 0]]
  /\ UNCHANGED <<localStorage, endpoint, clientId, modal, saved, tokenVars,
                 domVars, timerVars, pageVars, selectionVars>>

\* refreshAccessToken(): the payload of the REFRESH_TOKEN message of context c.
SendRefreshToken(c) ==
  /\ endpoint[c] # Absent
  /\ sentTo' = [sentTo EXCEPT ![c] =
                  [kind |-> "refresh", endpoint |-> endpoint[c],
                   clientId |-> clientId[c]]]
  /\ UNCHANGED <<localStorage, endpoint, clientId, modal, saved, tokenVars,
                 domVars, timerVars, pageVars, selectionVars>>

InitConfig ==
  /\ store = Empty
  /\ accessToken = [c \in Contexts |-> 0]
  /\ refreshToken = [c \in Contexts |-> 0]
  /\ up = [c \in Contexts |-> FALSE]
  /\ inbox = [c \in Contexts |-> <<>>]
  /\ refreshPromise = [c \in Contexts |-> NoPromise]
  /\ req = [c \in Contexts |-> [k \in Reqs |-> IdleReq]]
  /\ outstanding = [c \in Contexts |-> 0]
  /\ minted = 1
  /\ oauthState = 0
  /\ flow = [f \in Flows |-> IdleFlow]
  /\ loggedOut = "no"
  /\ DomIdle /\ ConfigIdle /\ TimerIdle /\ PageIdle /\ SelectionIdle

NextConfig ==
  \/ \E c \in Contexts : LoadConfig(c)
  \/ \E c \in Contexts : UnloadConfig(c)
  \/ ModalSetup
  \/ \E e \in Endpoints, i \in ClientIds : ModalInput(e, i)
  \/ ResetToDefaults
  \/ submit
  \/ \E c \in Contexts : SendApiRequest(c)
  \/ \E c \in Contexts : SendRefreshToken(c)

SpecConfig == InitConfig /\ [][NextConfig]_vars

\* ================================================ timeEntries.ts, useTimer
\* Seconds the clock advances.
MaxClock == 3

\* Calls of crypto.randomUUID().
MaxUuid == 2

\* Mutations of scope "timeEntry" that have not settled.
MaxMutations == 2

\* The variables of the other parts.
otherVars == <<tokenVars, domVars, configVars, pageVars, selectionVars>>

\* The query ["currentTimeEntry"] of the popup.
queryVars == <<queryData, invalidated, fetching, isError>>

\* What the watchers of the popup last ran on.
watchVars == <<seen, seenError>>

\* MainTimeEntryTable.vue: the state that useTimer leaves alone.
popupVars == <<table, memberships>>

\* History of the calls of useTimer.
callVars == <<lastStop, seq, settled>>

\* Organizations the user is a member of.
NumOrgs == 2

\* The ids of the memberships of the user, in the order of the response.
Memberships == 1..NumOrgs

\* membership.organization.id of membership m.
organization(m) == NumOrgs + m

\* useMyMemberships, currentOrganizationId: the organization of the
\* membership with the current id (0: null).
currentOrganizationId ==
  IF currentMembershipId \in memberships
  THEN organization(currentMembershipId) ELSE 0

\* memberships.value.find(m => m.organization.id === org)?.id
\* (0: undefined).
FindMembership(org) ==
  IF \E m \in memberships : organization(m) = org
  THEN CHOOSE m \in memberships : organization(m) = org
  ELSE 0

\* The query ["myMemberships"] answers; watch(memberships) selects the
\* first membership when the current id is null or not among them.
MembershipsLoaded ==
  /\ memberships = {}
  /\ memberships' = Memberships
  /\ currentMembershipId' = IF currentMembershipId \in Memberships
                            THEN currentMembershipId ELSE 1
  /\ UNCHANGED <<now, currentTimeEntry, mutations, uuids, offlineUuidStore,
                 remote, queryVars, watchVars, callVars, table, otherVars>>

\* The id the server gives the entry created with temporary id u.
ServerId(u) == MaxUuid + u

\* An id made by crypto.randomUUID() in onMutate of the create mutation.
IsTemporary(i) == i \in 1..MaxUuid

\* A second passes.
Tick ==
  /\ now < MaxClock
  /\ now' = now + 1
  /\ UNCHANGED <<currentTimeEntry, mutations, uuids, offlineUuidStore,
                 remote, queryVars, watchVars, callVars, popupVars,
                 currentMembershipId, otherVars>>

\* A create mutation of the scope has not settled.
CreateInFlight == \E i \in DOMAIN mutations : mutations[i].kind = "create"

\* A mutation as mutate() leaves it: onMutate has started and waits for
\* its first cancelQueries (early: a create had not settled at the call).
Mutation(kind, entry) ==
  [kind |-> kind, pc |-> "cancel", entry |-> entry, optimistic |-> 0,
   early |-> CreateInFlight, from |-> 0, organization |-> 0]

\* stopTimer(endTime) with endTime absent; onMutate of the stop mutation
\* first cancels the queries of the list.
stopTimer ==
  LET stoppedTimeEntry == currentTimeEntry
      end == now
  IN  /\ Len(mutations) < MaxMutations
      /\ currentMembershipId' = FindMembership(stoppedTimeEntry.organization_id)
      /\ currentTimeEntry' = emptyTimeEntry
      /\ mutations' = Append(mutations,
                             Mutation("stop", [stoppedTimeEntry EXCEPT !.end = end]))
      /\ lastStop' = [id |-> stoppedTimeEntry.id, end |-> end]
      /\ seq' = "stop"
      /\ UNCHANGED <<now, settled, uuids, offlineUuidStore, remote, queryVars,
                     watchVars, popupVars, otherVars>>

\* The create mutations whose onMutate has not asked for its id.
AwaitingId ==
  {i \in DOMAIN mutations :
     mutations[i].kind = "create" /\ mutations[i].pc = "cancel"}

\* startTimer(); onMutate of the create mutation cancels the fetch of
\* ["currentTimeEntry"].
startTimer ==
  LET startTime == now
      entry == [emptyTimeEntry EXCEPT !.start = startTime]
  IN  /\ Len(mutations) < MaxMutations
      /\ uuids + Cardinality(AwaitingId) < MaxUuid
      /\ currentTimeEntry' = entry
      /\ mutations' = Append(mutations, Mutation("create", entry))
      /\ seq' = IF seq = "stop" THEN "restart" ELSE "start"
      /\ fetching' = FALSE
      /\ UNCHANGED <<now, uuids, offlineUuidStore, remote, queryData,
                     invalidated, isError, watchVars, lastStop, settled,
                     popupVars,
                 currentMembershipId, otherVars>>

\* updateCurrentTimeEntry(): the update mutation gets the current entry
\* itself, not a copy, when the entry has an id; onMutate cancels the fetch
\* of ["currentTimeEntry"].
updateCurrentTimeEntry ==
  /\ Len(mutations) < MaxMutations
  /\ currentTimeEntry.id # 0
  /\ mutations' = Append(mutations, Mutation("update", currentTimeEntry))
  /\ fetching' = FALSE
  /\ UNCHANGED <<now, currentTimeEntry, uuids, offlineUuidStore, remote,
                 queryData, invalidated, isError, watchVars, callVars,
                 popupVars,
                 currentMembershipId, otherVars>>

\* setQueryData(["currentTimeEntry"], data): the query holds data, is
\* neither in error nor stale; a fetch in flight goes on.
setQueryData(data) ==
  /\ queryData' = data
  /\ isError' = FALSE
  /\ invalidated' = FALSE
  /\ fetching' = fetching

\* useCurrentTimeEntryUpdateMutation, onMutate: cancelQueries returns and
\* a copy of the variables becomes the query data.
UpdateOnMutate(i) ==
  /\ i \in DOMAIN mutations
  /\ mutations[i].kind = "update" /\ mutations[i].pc = "cancel"
  /\ setQueryData([data |-> mutations[i].entry, response |-> TRUE])
  /\ mutations' = [mutations EXCEPT ![i].pc = "queued"]
  /\ UNCHANGED <<now, currentTimeEntry, uuids, offlineUuidStore, remote,
                 watchVars, callVars, popupVars,
                 currentMembershipId, otherVars>>

\* useTimeEntryStopMutation, onMutate: the first cancelQueries returns and
\* the second one cancels the fetch of ["currentTimeEntry"].
StopCancelled(i) ==
  /\ i \in DOMAIN mutations
  /\ mutations[i].kind = "stop" /\ mutations[i].pc = "cancel"
  /\ mutations' = [mutations EXCEPT ![i].pc = "cancel2"]
  /\ fetching' = FALSE
  /\ UNCHANGED <<now, currentTimeEntry, uuids, offlineUuidStore, remote,
                 queryData, invalidated, isError, watchVars, callVars,
                 popupVars,
                 currentMembershipId, otherVars>>

\* useTimeEntryStopMutation, onMutate: the second cancelQueries returns and
\* the bare emptyTimeEntry becomes the query data.
StopOnMutate(i) ==
  /\ i \in DOMAIN mutations
  /\ mutations[i].kind = "stop" /\ mutations[i].pc = "cancel2"
  /\ setQueryData(NoData)
  /\ mutations' = [mutations EXCEPT ![i].pc = "queued"]
  /\ UNCHANGED <<now, currentTimeEntry, uuids, offlineUuidStore, remote,
                 watchVars, callVars, popupVars,
                 currentMembershipId, otherVars>>

\* useTimeEntryCreateMutation, onMutate: id: self.crypto.randomUUID()
OptimisticId(entry, n) == n + 1

\* useTimeEntryCreateMutation, onMutate: cancelQueries returns and the
\* optimistic entry becomes the query data.
CreateOnMutate(i) ==
  LET id == OptimisticId(mutations[i].entry, uuids)
  IN  /\ i \in DOMAIN mutations
      /\ mutations[i].kind = "create" /\ mutations[i].pc = "cancel"
      /\ uuids' = uuids + 1
      /\ setQueryData([data |-> [mutations[i].entry EXCEPT
                                   !.id = id,
                                   !.organization_id = currentOrganizationId],
                       response |-> TRUE])
      /\ mutations' = [mutations EXCEPT ![i].pc = "queued",
                                        ![i].optimistic = id]
      /\ UNCHANGED <<now, currentTimeEntry, offlineUuidStore, remote,
                     watchVars, callVars, popupVars,
                 currentMembershipId, otherVars>>

\* The watchers of the popup have run on the state of the query.
Flushed == seen = queryData /\ seenError = isError

\* MainTimeEntryTable.vue, watch(currentTimeEntryResponseIsError): when
\* the query turned to error, an entry with an id is reset.
ErrorReset(entry) ==
  IF seenError # isError /\ isError /\ entry.id # 0 THEN emptyTimeEntry
  ELSE entry

\* MainTimeEntryTable.vue, the watchers of the query in the order of their
\* creation: watch(currentTimeEntryResponseIsError), then
\* watch(currentTimeEntryResponse), which copies a response with data to
\* currentTimeEntry.
WatchResponse ==
  /\ ~Flushed
  /\ seen' = queryData
  /\ seenError' = isError
  /\ currentTimeEntry' = IF seen # queryData /\ queryData.response
                         THEN queryData.data
                         ELSE ErrorReset(currentTimeEntry)
  /\ UNCHANGED <<now, mutations, uuids, offlineUuidStore, remote, queryVars,
                 callVars, popupVars,
                 currentMembershipId, otherVars>>

\* The queries that onSettled of the three mutations invalidates.
TimerQueries == {"timeEntries", "currentTimeEntry"}

\* A mutation whose mutationFn threw leaves the scope unnoticed.
SettleSentOnly(sent, ok) ==
  /\ invalidated' = TRUE
  /\ fetching' = TRUE
  /\ settled' = IF sent
                THEN [kind |-> mutations[1].kind, sent |-> sent, ok |-> ok,
                      invalidated |-> TimerQueries]
                ELSE settled
  /\ mutations' = Tail(mutations)

\* onSettled (sent: mutationFn did not throw; ok: the remote accepted the
\* request): invalidateQueries marks the queries stale and fetches them
\* again; the settled mutation leaves the scope.
Settle(sent, ok) ==
  /\ invalidated' = TRUE
  /\ fetching' = TRUE
  /\ settled' = [kind |-> mutations[1].kind, sent |-> sent, ok |-> ok,
                 invalidated |-> TimerQueries]
  /\ mutations' = Tail(mutations)

\* The stop and the update mutation forgot the offlineUuidStore.
RemoteIdUnmapped(kind, id) == id

\* mutationFn of the stop and of the update mutation: a temporary id that
\* offlineUuidStore knows is replaced by the id the server gave.
RemoteId(kind, id) ==
  LET known == {p \in offlineUuidStore : p[1] = id}
  IN  IF kind \in {"stop", "update"} /\ known # {}
      THEN (CHOOSE p \in known : TRUE)[2] ELSE id

\* The oldest mutation of the scope runs its mutationFn: it throws without
\* a current organization id, the stop and the update mutation throw
\* without an id and replace the id of their variables; else the request
\* is sent with the current organization as parameter. The variables of
\* the update mutation are the current entry itself while that was not
\* replaced.
MutationFn ==
  LET m == mutations[1]
      id == RemoteId(m.kind, m.entry.id)
  IN  /\ mutations # <<>> /\ m.pc = "queued"
      /\ IF \/ currentOrganizationId = 0
            \/ (m.kind \in {"stop", "update"} /\ m.entry.id = 0)
         THEN /\ Settle(FALSE, FALSE)
              /\ UNCHANGED currentTimeEntry
         ELSE /\ UNCHANGED <<invalidated, fetching, settled>>
              /\ mutations' = [mutations EXCEPT ![1].pc = "sent",
                                                ![1].entry.id = id,
                                                ![1].from = m.entry.id,
                                                ![1].organization =
                                                   currentOrganizationId]
              /\ currentTimeEntry' =
                   IF m.kind = "update" /\ currentTimeEntry = m.entry
                   THEN [currentTimeEntry EXCEPT !.id = id]
                   ELSE currentTimeEntry
      /\ UNCHANGED <<now, uuids, offlineUuidStore, remote, queryData,
                     isError, watchVars, lastStop, seq, popupVars,
                 currentMembershipId, otherVars>>

\* The remote can accept the request of mutation m: it starts no entry
\* while one runs, and it changes only an entry it has given an id, the
\* entry that runs only within its organization.
RemoteAccepts(m) ==
  IF m.kind = "create" THEN remote = emptyTimeEntry
  ELSE /\ m.entry.id # 0 /\ ~IsTemporary(m.entry.id)
       /\ remote.id = m.entry.id => remote.organization_id = m.organization

\* The remote after it accepted the request of mutation m.
RemoteAfter(m) ==
  CASE m.kind = "create" -> [m.entry EXCEPT
                               !.id = ServerId(m.optimistic),
                               !.organization_id = m.organization]
    [] m.kind = "stop"   -> IF remote.id = m.entry.id THEN emptyTimeEntry
                            ELSE remote
    [] OTHER             -> remote

\* The remote answers the oldest mutation (ok) or the request fails;
\* onSuccess of the create mutation records the id given by the server.
MutationSettled(ok) ==
  LET m == mutations[1]
  IN  /\ mutations # <<>> /\ m.pc = "sent"
      /\ ok => RemoteAccepts(m)
      /\ remote' = IF ok THEN RemoteAfter(m) ELSE remote
      /\ offlineUuidStore' =
           IF ok /\ m.kind = "create"
           THEN offlineUuidStore \cup {<<m.optimistic, ServerId(m.optimistic)>>}
           ELSE offlineUuidStore
      /\ Settle(TRUE, ok)
      /\ UNCHANGED <<now, currentTimeEntry, uuids, queryData, isError,
                     watchVars, lastStop, seq, popupVars,
                 currentMembershipId, otherVars>>

\* The fetch of ["currentTimeEntry"] ends, after the watchers have run:
\* with the entry that runs at the remote, or in error when none runs or
\* the request fails (ok: it does not fail). An error keeps the data.
FetchDone(ok) ==
  /\ fetching /\ Flushed
  /\ fetching' = FALSE
  /\ IF ok /\ remote # emptyTimeEntry
     THEN /\ queryData' = [data |-> remote, response |-> TRUE]
          /\ isError' = FALSE
          /\ invalidated' = FALSE
     ELSE /\ isError' = TRUE
          /\ UNCHANGED <<queryData, invalidated>>
  /\ UNCHANGED <<now, currentTimeEntry, mutations, uuids, offlineUuidStore,
                 remote, watchVars, callVars, popupVars,
                 currentMembershipId, otherVars>>

\* MainTimeEntryTable.vue: the functions handed to TimeEntryGroupedTable.
TableKinds == {"createTimeEntry", "updateTimeEntry", "updateTimeEntries",
               "deleteTimeEntries"}

\* createTimeEntry, updateTimeEntry, updateTimeEntries, deleteTimeEntries
\* send their request at once, outside of the scope "timeEntry"; the table
\* holds entries with an end only.
TableRequest(kind) ==
  /\ table = "none"
  /\ table' = kind
  /\ UNCHANGED <<now, currentTimeEntry, mutations, uuids, offlineUuidStore,
                 remote, queryVars, watchVars, callVars, memberships,
                 currentMembershipId, otherVars>>

\* The request of the table is answered (ok) or fails, and the function
\* returns: no query is invalidated.
TableSettled(ok) ==
  /\ table # "none"
  /\ table' = "none"
  /\ settled' = [kind |-> table, sent |-> TRUE, ok |-> ok, invalidated |-> {}]
  /\ UNCHANGED <<now, currentTimeEntry, mutations, uuids, offlineUuidStore,
                 remote, queryVars, watchVars, lastStop, seq, memberships,
                 currentMembershipId, otherVars>>

InitTimer == InitConfig

NextTimer ==
  \/ Tick
  \/ MembershipsLoaded
  \/ stopTimer
  \/ startTimer
  \/ \E i \in 1..MaxMutations : StopCancelled(i)
  \/ \E i \in 1..MaxMutations : StopOnMutate(i)
  \/ \E i \in 1..MaxMutations : CreateOnMutate(i)
  \/ WatchResponse
  \/ MutationFn
  \/ \E ok \in BOOLEAN : MutationSettled(ok)

SpecTimer == InitTimer /\ [][NextTimer]_vars

\* The steps the popup does not wait for the user with run: the
\* continuations of the awaits in onMutate, the mutationFn of the oldest
\* mutation of the scope, the answer to a request.
TimerFairness ==
  /\ WF_vars(\E i \in 1..MaxMutations : StopCancelled(i))
  /\ WF_vars(\E i \in 1..MaxMutations : StopOnMutate(i))
  /\ WF_vars(\E i \in 1..MaxMutations : CreateOnMutate(i))
  /\ WF_vars(MutationFn)
  /\ WF_vars(\E ok \in BOOLEAN : MutationSettled(ok))

\* The timer of the popup without its clock.
NextStop ==
  \/ MembershipsLoaded
  \/ stopTimer
  \/ startTimer
  \/ \E i \in 1..MaxMutations : StopCancelled(i)
  \/ \E i \in 1..MaxMutations : StopOnMutate(i)
  \/ \E i \in 1..MaxMutations : CreateOnMutate(i)
  \/ WatchResponse
  \/ MutationFn
  \/ \E ok \in BOOLEAN : MutationSettled(ok)

SpecStop == InitTimer /\ [][NextStop]_vars

SpecStopFair == SpecStop /\ TimerFairness

\* The popup with the controls of a running entry; the clock stands still.
NextPopup ==
  \/ MembershipsLoaded
  \/ stopTimer
  \/ startTimer
  \/ updateCurrentTimeEntry
  \/ \E i \in 1..MaxMutations : StopCancelled(i)
  \/ \E i \in 1..MaxMutations : StopOnMutate(i)
  \/ \E i \in 1..MaxMutations : CreateOnMutate(i)
  \/ \E i \in 1..MaxMutations : UpdateOnMutate(i)
  \/ WatchResponse
  \/ MutationFn
  \/ \E ok \in BOOLEAN : MutationSettled(ok)
  \/ \E ok \in BOOLEAN : FetchDone(ok)

SpecPopup == InitTimer /\ [][NextPopup]_vars

\* The popup with the timer controls and the table of entries.
NextTable ==
  \/ MembershipsLoaded
  \/ stopTimer
  \/ startTimer
  \/ \E i \in 1..MaxMutations : StopCancelled(i)
  \/ \E i \in 1..MaxMutations : StopOnMutate(i)
  \/ \E i \in 1..MaxMutations : CreateOnMutate(i)
  \/ MutationFn
  \/ \E ok \in BOOLEAN : MutationSettled(ok)
  \/ \E kind \in TableKinds : TableRequest(kind)
  \/ \E ok \in BOOLEAN : TableSettled(ok)

SpecTable == InitTimer /\ [][NextTable]_vars

\* ==================================================== popup, organizations
\* The id of an entry another client of the account has started.
ForeignId == 2 * MaxUuid + 1

\* The entry another client has started in organization o.
Foreign(o) ==
  [id |-> ForeignId, start |-> 1, end |-> 0, organization_id |-> o]

\* The organizations of the memberships.
Orgs == {organization(m) : m \in Memberships}

\* MainTimeEntryTable.vue, template:
\* TimeTrackerRunningInDifferentOrganizationOverlay is rendered.
OverlayShown ==
  /\ currentTimeEntry.organization_id # 0
  /\ currentTimeEntry.organization_id # currentOrganizationId

\* switchOrganization(): the overlay emits switch-organization; the
\* membership of the organization of the current entry is selected when
\* there is one.
switchOrganization ==
  LET newMembershipId == FindMembership(currentTimeEntry.organization_id)
  IN  /\ OverlayShown
      /\ currentMembershipId' = IF newMembershipId # 0 THEN newMembershipId
                                ELSE currentMembershipId
      /\ UNCHANGED <<now, currentTimeEntry, mutations, uuids,
                     offlineUuidStore, remote, queryVars, watchVars,
                     callVars, popupVars, otherVars>>

\* The popup opens: currentTimeEntry and currentMembershipId come from
\* localStorage, an entry may run at the remote, the memberships are not
\* loaded and ["currentTimeEntry"] is fetched.
PopupOpened ==
  /\ now = 1
  /\ remote \in {emptyTimeEntry} \cup {Foreign(o) : o \in Orgs}
  /\ currentTimeEntry \in {emptyTimeEntry, remote}
  /\ currentMembershipId \in 0..NumOrgs
  /\ memberships = {}
  /\ fetching = TRUE
  /\ queryData = NoData /\ seen = NoData
  /\ mutations = <<>>
  /\ uuids = 0
  /\ offlineUuidStore = {}
  /\ invalidated = FALSE
  /\ lastStop = NoStop
  /\ seq = "none"
  /\ isError = FALSE
  /\ seenError = FALSE
  /\ settled = NoneSettled
  /\ table = "none"

\* The other contexts of the extension before they have done anything.
OthersIdle ==
  /\ store = Empty
  /\ accessToken = [c \in Contexts |-> 0]
  /\ refreshToken = [c \in Contexts |-> 0]
  /\ up = [c \in Contexts |-> FALSE]
  /\ inbox = [c \in Contexts |-> <<>>]
  /\ refreshPromise = [c \in Contexts |-> NoPromise]
  /\ req = [c \in Contexts |-> [k \in Reqs |-> IdleReq]]
  /\ outstanding = [c \in Contexts |-> 0]
  /\ minted = 1
  /\ oauthState = 0
  /\ flow = [f \in Flows |-> IdleFlow]
  /\ loggedOut = "no"
  /\ DomIdle /\ ConfigIdle /\ PageIdle

InitOrg == OthersIdle /\ SelectionIdle /\ PopupOpened

\* The overlay is rendered next to TimeTrackerControls, whose handlers stay
\* registered.
NextOrg ==
  \/ MembershipsLoaded
  \/ switchOrganization
  \/ stopTimer
  \/ updateCurrentTimeEntry
  \/ \E i \in 1..MaxMutations : StopCancelled(i)
  \/ \E i \in 1..MaxMutations : StopOnMutate(i)
  \/ \E i \in 1..MaxMutations : UpdateOnMutate(i)
  \/ WatchResponse
  \/ MutationFn
  \/ \E ok \in BOOLEAN : MutationSettled(ok)
  \/ \E ok \in BOOLEAN : FetchDone(ok)

SpecOrg == InitOrg /\ [][NextOrg]_vars

\* ======================================================= popup, selection
\* useMyMemberships: what the watchers of currentOrganizationId and of
\* currentMembershipId look at.
Selected ==
  [current_organization_id |-> currentOrganizationId,
   currentMembershipId |-> currentMembershipId]

\* The calls of browser.storage.local.set the two watchers make when the
\* selection went from old to new, the watcher of currentOrganizationId
\* first: each writes its key when its value has changed and is truthy.
SetCalls(old, new) ==
  (IF /\ new.current_organization_id # old.current_organization_id
      /\ new.current_organization_id # 0
   THEN <<[NoSelection EXCEPT
             !.current_organization_id = new.current_organization_id]>>
   ELSE <<>>)
  \o
  (IF /\ new.currentMembershipId # old.currentMembershipId
      /\ new.currentMembershipId # 0
   THEN <<[NoSelection EXCEPT
             !.currentMembershipId = new.currentMembershipId]>>
   ELSE <<>>)

\* The watchers of the selection run.
WatchSelection ==
  /\ watchedSelection # Selected
  /\ watchedSelection' = Selected
  /\ pendingSets' = pendingSets \o SetCalls(watchedSelection, Selected)
  /\ UNCHANGED <<storageLocal, observed, tokenVars, domVars, configVars,
                 timerVars, pageVars>>

\* browser.storage.local.set(items): the keys of items get their values
\* (0: items has no such key).
StorageSet ==
  /\ pendingSets # <<>>
  /\ storageLocal' =
       [k \in DOMAIN storageLocal |->
          IF Head(pendingSets)[k] # 0 THEN Head(pendingSets)[k]
          ELSE storageLocal[k]]
  /\ pendingSets' = Tail(pendingSets)
  /\ UNCHANGED <<watchedSelection, observed, tokenVars, domVars, configVars,
                 timerVars, pageVars>>

\* A content script reads both keys with one call of
\* browser.storage.local.get.
ReadSelection ==
  /\ observed' = storageLocal
  /\ UNCHANGED <<storageLocal, watchedSelection, pendingSets, tokenVars,
                 domVars, configVars, timerVars, pageVars>>

\* The popup opens after an earlier popup has stored its selection.
InitSelection ==
  /\ OthersIdle /\ PopupOpened
  /\ storageLocal = IF currentMembershipId = 0 THEN NoSelection
                    ELSE [current_organization_id |->
                            organization(currentMembershipId),
                          currentMembershipId |-> currentMembershipId]
  /\ watchedSelection = Selected
  /\ pendingSets = <<>>
  /\ observed = NoSelection

\* The operations of the popup that select a membership, its watchers, the
\* store and a content script.
NextSelection ==
  \/ MembershipsLoaded
  \/ switchOrganization
  \/ stopTimer
  \/ WatchSelection
  \/ StorageSet
  \/ ReadSelection

SpecSelection == InitSelection /\ [][NextSelection]_vars

\* ================================================ content script and store
\* The content script of a Jira tab before main(): the user may have logged
\* in and a popup may have stored its selection.
InitClickStore ==
  /\ store \in {Empty, Pair(1, 1)}
  /\ accessToken = [c \in Contexts |-> 0]
  /\ refreshToken = [c \in Contexts |-> 0]
  /\ up = [c \in Contexts |-> FALSE]
  /\ inbox = [c \in Contexts |-> <<>>]
  /\ refreshPromise = [c \in Contexts |-> NoPromise]
  /\ req = [c \in Contexts |-> [k \in Reqs |-> IdleReq]]
  /\ outstanding = [c \in Contexts |-> 0]
  /\ minted = 1
  /\ oauthState = 0
  /\ flow = [f \in Flows |-> IdleFlow]
  /\ loggedOut = "no"
  /\ started = FALSE
  /\ url \in Urls
  /\ lastUrl = 0
  /\ handled0 = FALSE
  /\ handled = FALSE
  /\ anchor \in BOOLEAN
  /\ btns = <<>>
  /\ loads = EmptyBag /\ clicks = EmptyBag
  /\ watch = NoObs /\ leaked = EmptyBag
  /\ active \in BOOLEAN
  /\ platform = "jira"
  /\ alert = "none"
  /\ removed = FALSE
  /\ ConfigIdle /\ TimerIdle /\ PageIdle
  /\ storageLocal \in {NoSelection,
                       [current_organization_id |-> organization(1),
                        currentMembershipId |-> 1]}
  /\ watchedSelection = NoSelection
  /\ pendingSets = <<>> /\ observed = NoSelection

\* refreshAccessToken() of the content script writes to the store.
TokenRefreshWrite ==
  \/ RefreshOk("content")
  \/ RefreshFail("content")
  \/ Api401NoToken("content", 1)

\* The content script with its clicks, its token cells and the requests of
\* apiClient().
NextClickStore ==
  \/ LoadStep
  \/ ClickStep
  \/ HostStep
  \/ ContextStep("content")
  \/ SingleRequestStep("content")

SpecClickStore == InitClickStore /\ [][NextClickStore]_vars

\* ============================= linear.ts, jira.ts, plane.ts: the page URL
\* A string is a sequence of characters; a word that the patterns of the
\* code spell out ("issue", "browse", ...) counts as one character, which
\* is no uppercase letter, no digit and no "/".
Upper == {"S", "T"}

Digit == {"5", "8"}

\* The segments a path is made of: empty, words, and issue keys that are
\* well formed (ST-58), lowercase (x-5), without "-" (ST), with a mixed
\* prefix (Sx-5), and followed by more text (ST-5x).
Segments ==
  [empty |-> <<>>, acme |-> <<"acme">>, issue |-> <<"issue">>,
   issues |-> <<"issues">>, browse |-> <<"browse">>,
   projects |-> <<"projects">>, jira |-> <<"jira">>,
   software |-> <<"software">>, boards |-> <<"boards">>,
   backlog |-> <<"backlog">>, board |-> <<"5">>,
   key |-> <<"S", "T", "-", "5", "8">>, lower |-> <<"x", "-", "5">>,
   nodash |-> <<"S", "T">>, mixed |-> <<"S", "x", "-", "5">>,
   tail |-> <<"S", "T", "-", "5", "x">>]

\* Segments of a path, at most.
MaxSegments == 4

\* Segments after /jira/software/projects, at most.
MaxBoardSegments == 4

\* Parameters of a query string, at most.
MaxParams == 1

\* All sequences over S of length 0..n.
SeqsUpTo(S, n) == UNION {[1..k -> S] : k \in 0..n}

\* The paths of the pages of Linear, Jira and Plane that are looked at.
LinearPaths ==
  SeqsUpTo({Segments.empty, Segments.acme, Segments.issue, Segments.key,
            Segments.nodash, Segments.mixed, Segments.lower},
           MaxSegments) \ {<<>>}

JiraPaths ==
  (SeqsUpTo({Segments.empty, Segments.acme, Segments.browse, Segments.key,
             Segments.lower, Segments.tail}, MaxSegments - 1) \ {<<>>})
  \cup {<<Segments.jira, Segments.software, Segments.projects>> \o t :
          t \in SeqsUpTo({Segments.empty, Segments.acme, Segments.boards,
                          Segments.board, Segments.backlog},
                         MaxBoardSegments)}

PlanePaths ==
  SeqsUpTo({Segments.empty, Segments.acme, Segments.browse,
            Segments.projects, Segments.issues, Segments.key,
            Segments.tail}, MaxSegments + 1) \ {<<>>}

\* A parameter of the query string: name, "=" (eq) and value.
Params ==
  [name : {<<"selectedIssue">>, <<"pre", "selectedIssue">>, <<"view">>},
   eq : {TRUE}, value : {<<>>, Segments.key}]
  \cup [name : {<<"selectedIssue">>}, eq : {FALSE}, value : {<<>>}]

Searches == SeqsUpTo(Params, MaxParams)

\* window.location of the pages that are looked at.
Locations ==
  [segments : LinearPaths \cup PlanePaths, search : {<<>>}]
  \cup [segments : JiraPaths, search : Searches]

RECURSIVE Join(_)
\* window.location.pathname: every segment after a "/".
Join(segments) ==
  IF segments = <<>> THEN <<>>
  ELSE <<"/">> \o Head(segments) \o Join(Tail(segments))

pathname(l) == Join(l.segments)

RECURSIVE JoinParams(_)
JoinParams(ps) ==
  IF ps = <<>> THEN <<>>
  ELSE Head(ps).name \o (IF Head(ps).eq THEN <<"=">> ELSE <<>>)
       \o Head(ps).value
       \o (IF Len(ps) > 1 THEN <<"&">> ELSE <<>>) \o JoinParams(Tail(ps))

\* window.location.search
search(l) == IF l.search = <<>> THEN <<>> ELSE <<"?">> \o JoinParams(l.search)

\* The character of s at i ("": past the end).
At(s, i) == IF i \in 1..Len(s) THEN s[i] ELSE ""

RECURSIVE Run(_, _, _)
\* The length of the longest run of characters of class C in s from i on.
Run(s, i, C) == IF At(s, i) \in C THEN 1 + Run(s, i + 1, C) ELSE 0

\* The class [^/] within s.
NoSlash(s) == {s[i] : i \in 1..Len(s)} \ {"/"}

\* s has the text t at i.
HasAt(s, i, t) == \A k \in 1..Len(t) : At(s, i + k - 1) = t[k]

\* String.prototype.includes
includes(s, t) == \E i \in 1..Len(s) : HasAt(s, i, t)

\* isLinearIssuePage(): /^\/[^/]+\/issue\/[^/]+/ on the pathname.
isLinearIssuePage(l) ==
  LET s == pathname(l)
      w == Run(s, 2, NoSlash(s))
  IN  /\ At(s, 1) = "/" /\ w >= 1
      /\ HasAt(s, 2 + w, <<"/", "issue", "/">>)
      /\ Run(s, 5 + w, NoSlash(s)) >= 1

\* The pattern of the project key lost its "-".
ProjectKeyNoDash(issueId) == SubSeq(issueId, 1, Run(issueId, 1, Upper))

\* getLinearIssueInfo(): issueId.match(/^([A-Z]+)-/), else "".
ProjectKey(issueId) ==
  LET u == Run(issueId, 1, Upper)
  IN  IF u >= 1 /\ At(issueId, u + 1) = "-" THEN SubSeq(issueId, 1, u)
      ELSE <<>>

\* getLinearIssueInfo(): null off an issue page; else the groups of
\* /^\/([^/]+)\/issue\/([^/]+)(?:\/(.+))?/ and the project key.
getLinearIssueInfo(l) ==
  LET s == pathname(l)
      w == Run(s, 2, NoSlash(s))
      k == Run(s, 5 + w, NoSlash(s))
      issueId == SubSeq(s, 5 + w, 4 + w + k)
      rest == 6 + w + k
      issueTitle == IF At(s, 5 + w + k) = "/" /\ rest <= Len(s)
                    THEN SubSeq(s, rest, Len(s)) ELSE <<>>
  IN  IF ~isLinearIssuePage(l) THEN [NoInfo EXCEPT !.platform = "linear"]
      ELSE [platform |-> "linear", isIssuePage |-> TRUE, null |-> FALSE,
            id |-> issueId, title |-> issueTitle,
            project |-> ProjectKey(issueId)]

\* /^\/browse\/[A-Z]+-\d+/ at i of s, where the key starts: the length of
\* the key ([A-Z]+-\d+), 0 when there is no match.
KeyAt(s, i) ==
  LET u == Run(s, i, Upper)
      n == Run(s, i + u + 1, Digit)
  IN  IF u >= 1 /\ At(s, i + u) = "-" /\ n >= 1 THEN u + 1 + n ELSE 0

\* isJiraIssuePage() on window.location: the board pattern
\* /^\/jira\/software\/projects\/.+\/boards\/\d+/ with "selectedIssue=" in
\* the query string, or the browse pattern /^\/browse\/[A-Z]+-\d+/.
isJiraIssuePageAt(l) ==
  LET s == pathname(l)
      isBoardView ==
        /\ HasAt(s, 1, <<"/", "jira", "/", "software", "/", "projects", "/">>)
        /\ \E j \in 9..Len(s) :
             /\ HasAt(s, j, <<"/", "boards", "/">>)
             /\ At(s, j + 3) \in Digit
        /\ includes(search(l), <<"selectedIssue", "=">>)
      isBrowseView == HasAt(s, 1, <<"/", "browse", "/">>) /\ KeyAt(s, 4) > 0
  IN  isBoardView \/ isBrowseView

\* URLSearchParams.get(name): the value of the first parameter of that
\* name, null (here "") without one.
SearchGet(l, name) ==
  LET named == {i \in DOMAIN l.search : l.search[i].name = name}
  IN  IF named = {} THEN <<>>
      ELSE l.search[CHOOSE i \in named : \A j \in named : i <= j].value

\* getJiraIssueInfo() on window.location: null off an issue page; the key
\* and its part before "-" for the browse pattern; else the project of
\* the board path and the value of selectedIssue.
getJiraIssueInfoAt(l) ==
  LET s == pathname(l)
      issueKey == SubSeq(s, 4, 3 + KeyAt(s, 4))
      p == Run(s, 8, NoSlash(s))
  IN  IF ~isJiraIssuePageAt(l) THEN [NoInfo EXCEPT !.platform = "jira"]
      ELSE IF HasAt(s, 1, <<"/", "browse", "/">>) /\ KeyAt(s, 4) > 0
      THEN [platform |-> "jira", isIssuePage |-> TRUE, null |-> FALSE,
            id |-> issueKey, title |-> <<>>,
            project |-> SubSeq(issueKey, 1, Run(issueKey, 1,
                                 NoSlash(issueKey) \ {"-"}))]
      ELSE [platform |-> "jira", isIssuePage |-> TRUE, null |-> FALSE,
            id |-> SearchGet(l, <<"selectedIssue">>), title |-> <<>>,
            project |-> IF p >= 1 /\ At(s, 8 + p) = "/"
                        THEN SubSeq(s, 8, 7 + p) ELSE <<>>]

\* isPlaneIssuePage(): /^\/[^/]+\/projects\/[^/]+\/issues\// or
\* /^\/[^/]+\/browse\/[A-Z]+-\d+/ on the pathname.
isPlaneIssuePage(l) ==
  LET s == pathname(l)
      w == Run(s, 2, NoSlash(s))
      p == Run(s, 5 + w, NoSlash(s))
  IN  /\ At(s, 1) = "/" /\ w >= 1
      /\ \/ /\ HasAt(s, 2 + w, <<"/", "projects", "/">>)
            /\ p >= 1
            /\ HasAt(s, 5 + w + p, <<"/", "issues", "/">>)
         \/ /\ HasAt(s, 2 + w, <<"/", "browse", "/">>)
            /\ KeyAt(s, 5 + w) > 0

\* The content script of platform p tests the page and reads the issue.
ReadPage(p) ==
  /\ info = NoInfo
  /\ info' = CASE p = "linear" -> getLinearIssueInfo(location)
               [] p = "jira"   -> getJiraIssueInfoAt(location)
               [] OTHER        ->
                    [NoInfo EXCEPT !.platform = "plane",
                                   !.isIssuePage = isPlaneIssuePage(location)]
  /\ UNCHANGED <<location, waiting, tokenVars, domVars, configVars, timerVars,
                 selectionVars>>

\* A page of one of the three hosts is open, the stores are empty.
InitUrl ==
  /\ location \in Locations /\ info = NoInfo /\ waiting = NoWait
  /\ store = Empty
  /\ accessToken = [c \in Contexts |-> 0]
  /\ refreshToken = [c \in Contexts |-> 0]
  /\ up = [c \in Contexts |-> FALSE]
  /\ inbox = [c \in Contexts |-> <<>>]
  /\ refreshPromise = [c \in Contexts |-> NoPromise]
  /\ req = [c \in Contexts |-> [k \in Reqs |-> IdleReq]]
  /\ outstanding = [c \in Contexts |-> 0]
  /\ minted = 1
  /\ oauthState = 0
  /\ flow = [f \in Flows |-> IdleFlow]
  /\ loggedOut = "no"
  /\ DomIdle /\ ConfigIdle /\ TimerIdle /\ SelectionIdle

NextUrl == \E p \in Platforms : ReadPage(p)

SpecUrl == InitUrl /\ [][NextUrl]_vars

\* ================================================ linear.ts, waitForElement
\* The timeouts a call is made with, in ticks of the clock.
MaxTimeout == 6
\* The time between two animation frames, at most.
MaxFrameGap == 3

\* The promise has both resolved and rejected when the element is found late.
checkNoReturn(w) ==
  LET late == w.elapsed > w.timeout
      first == w.resolved + w.rejected = 0
  IN  IF w.present \/ late
      THEN [w EXCEPT !.pc = "settled", !.frame = FALSE,
                     !.resolved = IF w.present THEN @ + 1 ELSE @,
                     !.rejected = IF late THEN @ + 1 ELSE @,
                     !.settledAt = IF first THEN w.elapsed ELSE @]
      ELSE [w EXCEPT !.pc = "pending", !.frame = TRUE]

\* check(): the element resolves the promise; else the elapsed time rejects
\* it; else check is handed to requestAnimationFrame.
check(w) ==
  IF w.present
  THEN [w EXCEPT !.pc = "settled", !.frame = FALSE, !.resolved = @ + 1,
                 !.settledAt = w.elapsed]
  ELSE IF w.elapsed > w.timeout
  THEN [w EXCEPT !.pc = "settled", !.frame = FALSE, !.rejected = @ + 1,
                 !.settledAt = w.elapsed]
  ELSE [w EXCEPT !.pc = "pending", !.frame = TRUE]

\* waitForElement(selector, timeout): startTime is taken and check() runs.
waitForElement ==
  /\ waiting.pc = "called"
  /\ waiting' = check(waiting)
  /\ UNCHANGED <<location, info, tokenVars, domVars, configVars, timerVars,
                 selectionVars>>

\* An animation frame, dt ticks after the last run of check(): check() runs.
AnimationFrame(dt) ==
  /\ waiting.frame
  /\ waiting' = check([waiting EXCEPT !.elapsed = @ + dt])
  /\ UNCHANGED <<location, info, tokenVars, domVars, configVars, timerVars,
                 selectionVars>>

\* The host page renders the element or takes it out of the document.
HostRendersElement ==
  /\ waiting.pc \in {"called", "pending"}
  /\ waiting' = [waiting EXCEPT !.present = ~@]
  /\ UNCHANGED <<location, info, tokenVars, domVars, configVars, timerVars,
                 selectionVars>>

\* A content script is about to call waitForElement.
InitWait ==
  /\ location = NoLocation /\ info = NoInfo
  /\ waiting \in {[NoWait EXCEPT !.pc = "called", !.timeout = tm, !.present = p] :
                    tm \in 1..MaxTimeout, p \in BOOLEAN}
  /\ store = Empty
  /\ accessToken = [c \in Contexts |-> 0]
  /\ refreshToken = [c \in Contexts |-> 0]
  /\ up = [c \in Contexts |-> FALSE]
  /\ inbox = [c \in Contexts |-> <<>>]
  /\ refreshPromise = [c \in Contexts |-> NoPromise]
  /\ req = [c \in Contexts |-> [k \in Reqs |-> IdleReq]]
  /\ outstanding = [c \in Contexts |-> 0]
  /\ minted = 1
  /\ oauthState = 0
  /\ flow = [f \in Flows |-> IdleFlow]
  /\ loggedOut = "no"
  /\ DomIdle /\ ConfigIdle /\ TimerIdle /\ SelectionIdle

NextWait ==
  \/ waitForElement
  \/ \E dt \in 1..MaxFrameGap : AnimationFrame(dt)
  \/ HostRendersElement

SpecWait == InitWait /\ [][NextWait]_vars

\* The call runs its first check() at once and animation frames keep firing.
WaitFrames ==
  /\ WF_vars(waitForElement)
  /\ WF_vars(\E dt \in 1..MaxFrameGap : AnimationFrame(dt))

SpecWaitFair == SpecWait /\ WaitFrames

\* ======================================================= claims, injection
\* No handlePageLoad, injection or click handler is suspended.
NoneInFlight ==
  /\ loads = EmptyBag /\ clicks = EmptyBag
  /\ \A x \in Observers : x[2].pc = "idle"

\* C1: the document never contains more than one injected control.
C1_AtMostOneControl == Len(btns) <= 1

\* C10: once handlePageLoad has handled the navigation to a page that is not
\* an issue page and no handlePageLoad, injection or click handler is
\* suspended any more, the document contains no injected control.
C10_NoControlOffIssue ==
  (handled0 /\ ~isJiraIssuePage(url) /\ NoneInFlight) => btns = <<>>

\* C11: once handlePageLoad has handled the navigation to an issue page and
\* nothing is suspended any more, every injected control of the document was
\* created for the issue of that page: its description, and the description
\* its click listeners pass to createTimeEntry, carry that issue's key.
C11_ControlIsForCurrentIssue ==
  (handled /\ isJiraIssuePage(url) /\ NoneInFlight) =>
    \A j \in DOMAIN btns :
      /\ btns[j].desc = IssueKey(url)
      /\ \A l \in btns[j].ls : l.desc = IssueKey(url)

\* C14: the description of every injected control carries a non-empty
\* issue key.
C14_ControlHasIssueKey ==
  \A j \in DOMAIN btns : btns[j].desc # 0

\* C12: whenever a control is present, the content script has an access
\* token and nothing is suspended, the label of every control and the action
\* its click listeners perform agree with whether the remote has an active
\* time entry.
C12_ControlShowsRemoteState ==
  (btns # <<>> /\ LoggedIn /\ NoneInFlight) =>
    \A j \in DOMAIN btns :
      /\ btns[j].tracking = active
      /\ \A l \in btns[j].ls : l.tracking = active

\* The host page removed the injected control; the page is still an issue
\* page and shows the actions wrapper.
RemovedByHost ==
  removed /\ btns = <<>> /\ isJiraIssuePage(url) /\ findJiraActionsWrapper

\* C13: on every platform, when the host page has removed the injected
\* control while the page is an issue page with the actions wrapper in it, a
\* control is injected again (or the host page takes the wrapper away), with
\* no navigation.
C13_ReinjectedAfterRemoval ==
  RemovedByHost ~> (btns # <<>> \/ ~findJiraActionsWrapper)

\* handlePageLoad calls suspended in waitForElement.
Waiting(B) == CopiesIn(WaitTask, B)

\* C19: a step in which a waitForElement ends although the actions wrapper
\* is not in the document (the timeout) injects no control, shows no alert
\* and installs no observer, and the handlePageLoad call is over; and a
\* later navigation event on an issue page without control and wrapper
\* starts the search for the wrapper again.
C19_TimeoutAbortsSilently ==
  [][/\ (Waiting(loads') < Waiting(loads) /\ ~findJiraActionsWrapper)
          => /\ btns' = btns /\ alert' = alert
             /\ watch' = watch /\ leaked' = leaked
             /\ BagCardinality(loads') < BagCardinality(loads)
     /\ (/\ UrlObserver \/ \E u \in NavTargets : Popstate(u)
         /\ isJiraIssuePage(url') /\ btns = <<>> /\ ~findJiraActionsWrapper)
          => Waiting(loads') = Waiting(loads) + 1]_vars

\* handlePageLoad ran on an issue page whose actions wrapper never appeared,
\* and its search has ended: nothing is injected, shown or installed.
C19_Witness ==
  /\ started /\ handled /\ isJiraIssuePage(url) /\ ~findJiraActionsWrapper
  /\ loads = EmptyBag /\ btns = <<>> /\ alert = "none"
  /\ watch = NoObs /\ leaked = EmptyBag /\ ~removed

\* ========================================================== claims, clicks
\* The number of createTimeEntry requests in flight in the bag of handlers B.
CreateRequests(B) ==
  LET S == {t \in BagToSet(B) : t.pc = "startCreate"}
  IN  BagCardinality([t \in S |-> CopiesIn(t, B)])

\* C15: when the handler of a click on a control in the not-tracking state
\* reads the store and current_organization_id or currentMembershipId is
\* absent, the step sends no createTimeEntry request, leaves the remote
\* entry as it is, and shows the message asking to select an organization.
C15_NoOrganizationNoEntry ==
  [][\A t \in BagToSet(clicks), r \in StorageResults :
       (/\ ~t.tracking
        /\ r.current_organization_id = 0 \/ r.currentMembershipId = 0
        /\ ClickStartStorage(t, r))
       => /\ alert' = "organization"
          /\ CreateRequests(clicks') <= CreateRequests(clicks)
          /\ active' = active]_vars

\* A click without a selected organization has been handled to its end.
C15_Witness ==
  alert = "organization" /\ clicks = EmptyBag /\ btns # <<>> /\ ~active

\* C16: a control of the document is disabled only while a click handler
\* that captured it is still running: when every click action has completed,
\* whatever its outcome, no control in the document is disabled.
C16_EnabledAfterClick ==
  \A j \in DOMAIN btns :
    btns[j].disabled => \E t \in BagToSet(clicks) : t.btn = btns[j].id

\* A click action has completed with a remote failure reported and with the
\* control left in the document.
C16_Witness ==
  /\ clicks = EmptyBag /\ btns # <<>>
  /\ alert = "failed"
  /\ \A j \in DOMAIN btns : ~btns[j].disabled

\* The identities of the controls in the document.
ControlIds(bs) == {bs[j].id : j \in DOMAIN bs}

\* C17: every step that completes a click handler while the actions wrapper
\* is in the document, on success and on failure alike, leaves a control in
\* the document that was created by that step's re-injection.
C17_RerenderedOnCompletion ==
  [][(\E t \in BagToSet(clicks) :
        /\ clicks' = Take(clicks, t)
        /\ findJiraActionsWrapper
        /\ t.pc = "reQuery" => t.live)
     => ControlIds(btns') \ ControlIds(btns) # {}]_vars

\* ======================================================== claims, settings
\* C18: once the endpoint and the client id have been saved in the popup
\* settings, every request of every context goes to the saved endpoint and
\* every REFRESH_TOKEN message carries the saved endpoint and client id.
C18_SavedSettingsUsedEverywhere ==
  saved # NotSaved =>
    \A c \in Contexts :
      /\ sentTo[c].kind # "none" => sentTo[c].endpoint = saved.endpoint
      /\ sentTo[c].kind = "refresh" => sentTo[c].clientId = saved.clientId

\* ========================================================== claims, timer
\* The optimistic updates of every mutation have been applied and the
\* watcher of the popup has run on the result.
OptimisticApplied ==
  /\ \A i \in DOMAIN mutations : mutations[i].pc \in {"queued", "sent"}
  /\ seen = queryData

\* C20: after stopTimer() of an entry with an id, followed by startTimer(),
\* once the optimistic updates are applied and while the create request has
\* not settled, the local current entry has a fresh temporary id, distinct
\* from the id of the stopped entry, and its start is not before the end
\* sent for the stopped entry.
C20_RestartHasFreshId ==
  (/\ seq = "restart" /\ lastStop.id # 0 /\ OptimisticApplied
   /\ \E i \in DOMAIN mutations : mutations[i].kind = "create")
  => /\ currentTimeEntry.id # lastStop.id
     /\ IsTemporary(currentTimeEntry.id)
     /\ currentTimeEntry.start >= lastStop.end

\* The requests the remote has not answered: a mutation whose mutationFn
\* has sent its request (from: the id before mutationFn replaced it).
Requests == {mutations[i] : i \in {j \in DOMAIN mutations :
                                      mutations[j].pc = "sent"}}

isActive(entry) == entry.start # 0 /\ entry.end = 0

\* Nothing is pending in the popup: no mutation, no fetch, no watcher.
Reconciled == mutations = <<>> /\ ~fetching /\ Flushed

\* C22: when a create or update request has failed and the popup has
\* reconciled, the local current entry is active only if an entry runs at
\* the remote.
C22_FailureIsReconciled ==
  (/\ settled.kind \in {"create", "update"} /\ settled.sent /\ ~settled.ok
   /\ Reconciled /\ isActive(currentTimeEntry))
  => remote # emptyTimeEntry

\* C23: the mutation that settled last, whether it succeeded or failed,
\* has invalidated the query of the list and the query of the current
\* entry.
C23_SettledInvalidatesQueries ==
  settled.kind # "none" => settled.invalidated = TimerQueries

\* ============================================================ claims, URLs
\* A segment is an issue key of Jira and Plane: uppercase letters, "-",
\* digits, and nothing else.
IsKey(seg) ==
  \E u \in 1..Len(seg) :
    /\ \A i \in 1..u : seg[i] \in Upper
    /\ At(seg, u + 1) = "-"
    /\ Len(seg) >= u + 2
    /\ \A i \in (u + 2)..Len(seg) : seg[i] \in Digit

\* The path begins with the segments /{ws}/issue/{KEY}.
LinearShape(l) ==
  LET p == l.segments
  IN  Len(p) >= 3 /\ p[1] # <<>> /\ p[2] = <<"issue">> /\ p[3] # <<>>

\* The query string has a parameter selectedIssue.
HasSelectedIssue(l) ==
  \E i \in DOMAIN l.search : l.search[i].name = <<"selectedIssue">>

\* The path begins with /browse/{KEY}, or it begins with a board path
\* /jira/software/projects/{project}/boards/{n} and the query string has
\* the parameter selectedIssue.
JiraShape(l) ==
  LET p == l.segments
  IN  \/ Len(p) >= 2 /\ p[1] = <<"browse">> /\ IsKey(p[2])
      \/ /\ Len(p) >= 6
         /\ SubSeq(p, 1, 3) = <<<<"jira">>, <<"software">>, <<"projects">>>>
         /\ \E j \in 5..Len(p) - 1 :
              /\ p[j] = <<"boards">>
              /\ p[j + 1] # <<>> /\ p[j + 1][1] \in Digit
              /\ \E i \in 4..j - 1 : p[i] # <<>> \/ j - 1 > 4
         /\ HasSelectedIssue(l)

\* The path begins with /{ws}/browse/{KEY} or with
\* /{ws}/projects/{id}/issues/.
PlaneShape(l) ==
  LET p == l.segments
  IN  /\ Len(p) >= 3 /\ p[1] # <<>>
      /\ \/ p[2] = <<"browse">> /\ IsKey(p[3])
         \/ /\ Len(p) >= 5 /\ p[2] = <<"projects">> /\ p[3] # <<>>
            /\ p[4] = <<"issues">>

\* C24: the three tests are true exactly for the issue URL shapes of their
\* platform, and false for every other path.
C24_IssuePageIffShape ==
  /\ info.platform = "linear" => (info.isIssuePage <=> LinearShape(location))
  /\ info.platform = "jira" => (info.isIssuePage <=> JiraShape(location))
  /\ info.platform = "plane" => (info.isIssuePage <=> PlaneShape(location))

\* The part of a key before its first "-" (the whole key without one).
BeforeDash(key) ==
  LET dashes == {i \in 1..Len(key) : key[i] = "-"}
  IN  IF dashes = {} THEN key
      ELSE SubSeq(key, 1, (CHOOSE i \in dashes : \A j \in dashes : i <= j) - 1)

\* The uppercase letters that lead up to the first "-" of a key; empty
\* when the key has no "-" or other characters come before it.
LeadingUpper(key) ==
  IF /\ BeforeDash(key) # key /\ BeforeDash(key) # <<>>
     /\ \A i \in 1..Len(BeforeDash(key)) : key[i] \in Upper
  THEN BeforeDash(key) ELSE <<>>

\* C25: on a Linear path /{ws}/issue/{KEY}[/{slug}] the issue read has
\* issueId KEY, issueTitle slug (empty without one) and as projectKey the
\* uppercase letters that lead up to the first "-" of KEY (empty when
\* there are none); on a Jira path /browse/{KEY}, KEY being uppercase
\* letters, "-", digits, it has issueKey KEY and as projectName the part
\* of KEY before "-".
C25_IssueInfoFromUrl ==
  LET p == location.segments
  IN  /\ (/\ info.platform = "linear" /\ Len(p) \in {3, 4}
          /\ p[2] = <<"issue">> /\ \A i \in DOMAIN p : p[i] # <<>>)
         => /\ ~info.null
            /\ info.id = p[3]
            /\ info.title = (IF Len(p) = 4 THEN p[4] ELSE <<>>)
            /\ info.project = LeadingUpper(p[3])
      /\ (/\ info.platform = "jira" /\ Len(p) = 2
          /\ p[1] = <<"browse">> /\ IsKey(p[2]))
         => /\ ~info.null
            /\ info.id = p[2]
            /\ info.project = BeforeDash(p[2])

\* A Linear issue with slug and project key, or a Jira issue, has been
\* read.
C25_Witness ==
  /\ ~info.null
  /\ \/ /\ info.platform = "linear" /\ info.title # <<>>
         /\ info.project = <<"S", "T">>
         /\ location.segments = <<Segments.acme, Segments.issue,
                                  Segments.key, Segments.acme>>
      \/ /\ info.platform = "jira" /\ info.project = <<"S", "T">>
         /\ location.segments = <<Segments.browse, Segments.key>>

\* stopTimer() was called with an active entry and its mutationFn has not
\* run.
StopPending ==
  \E i \in DOMAIN mutations :
    /\ mutations[i].kind = "stop" /\ mutations[i].entry.start # 0
    /\ mutations[i].pc # "sent"

\* The stop request is on its way to the remote.
StopSent ==
  \E i \in DOMAIN mutations :
    mutations[i].kind = "stop" /\ mutations[i].pc = "sent"

\* mutateAsync has rejected the promise stopTimer() awaits: the mutationFn
\* of the stop mutation threw.
StopRejected ==
  settled.kind = "stop" /\ ~settled.sent

StopCalled ==
  /\ isActive(currentTimeEntry)
  /\ Len(mutations') = Len(mutations) + 1
  /\ mutations'[Len(mutations')].kind = "stop"

\* The stop requests in flight.
StopRequests ==
  {mutations[i] : i \in {j \in DOMAIN mutations :
                           /\ mutations[j].kind = "stop"
                           /\ mutations[j].pc = "sent"}}

\* C27: after stopTimer() the selected membership is the membership of the
\* organization of the stopped entry, never none when one was selected
\* before, and the stop request is sent with that organization as its
\* organization parameter.
C27_StopSelectsOrganization ==
  /\ [][StopCalled =>
          /\ currentMembershipId' \in memberships
          /\ organization(currentMembershipId')
               = currentTimeEntry.organization_id
          /\ currentMembershipId # 0 => currentMembershipId' # 0]_vars
  /\ [](\A r \in StopRequests : r.organization = r.entry.organization_id)

\* The update and stop requests in flight.
EntryRequests ==
  {mutations[i] : i \in {j \in DOMAIN mutations :
                           /\ mutations[j].kind \in {"stop", "update"}
                           /\ mutations[j].pc = "sent"}}

\* C28: no update or stop request for the current entry is sent with an
\* organization parameter other than the organization_id of that entry.
C28_RequestsUseEntryOrganization ==
  \A r \in EntryRequests : r.organization = r.entry.organization_id

\* ======================================================= claims, selection
\* C29: the selection a content script reads from browser.storage.local is
\* one pair: its currentMembershipId is a membership of its
\* current_organization_id.
C29_SelectionReadIsOnePair ==
  observed.current_organization_id # 0 /\ observed.currentMembershipId # 0
    => organization(observed.currentMembershipId)
         = observed.current_organization_id

\* ================================================== claims, content script
\* C30: no step of a click on the control, and of the requests it makes,
\* changes the keys of the selection, of the instance settings or of the
\* timer cache; access_token and refresh_token change only where
\* refreshAccessToken() writes them.
C30_ClickWritesOnlyTokens ==
  [][/\ UNCHANGED <<storageLocal, localStorage, currentTimeEntry>>
     /\ store' # store => TokenRefreshWrite]_vars

\* The request of a click has been answered, the click handler injects the
\* control again, a refresh has written new tokens and the selection is
\* the one the popup stored.
C30_Witness ==
  /\ \E t \in BagToSet(clicks) : t.pc = "reQuery"
  /\ minted > 1 /\ store = Pair(minted, minted)
  /\ storageLocal # NoSelection

\* ========================================================== claims, login
\* C31: a START_OAUTH_FLOW request whose authorization window has returned
\* has no response before its handling ends and exactly one when it has
\* ended, and it does end; a response with success = true was preceded by the
\* write of the exchanged tokens to the store.
C31_OneResponseAfterWrite ==
  /\ [](\A f \in LoginFlows :
         /\ flow[f].phase \in {"redirect", "exchange", "storing"}
              => flow[f].responses = 0
         /\ flow[f].phase = "done" => flow[f].responses = 1
         /\ flow[f].ok => flow[f].wrote /\ flow[f].phase = "done")
  /\ \A f \in LoginFlows :
       (flow[f].phase \in {"exchange", "storing"}) ~> (flow[f].phase = "done")

\* Two logins have ended, one with success = true and one without.
C31_Witness ==
  \E f, g \in LoginFlows :
    /\ flow[f].phase = "done" /\ flow[f].ok
    /\ flow[g].phase = "done" /\ ~flow[g].ok /\ flow[g].responses = 1

\* The response URL carries the state generated for the request in slot f
\* and a code, and no error.
OwnCallback(f, cb) ==
  ~cb.lastError /\ cb.url /\ ~cb.error /\ cb.state = f /\ cb.code

\* C32: a callback that returns the state generated for its own request and
\* a code proceeds to the token exchange, with the verifier generated for
\* its own request, also when another START_OAUTH_FLOW request has arrived
\* in between.
C32_OwnStateOwnVerifier ==
  [][\A f \in LoginFlows, cb \in Callbacks :
       (OwnCallback(f, cb) /\ OAuthCallback(f, cb)) =>
          flow'[f].phase = "exchange" /\ oauthVerifier = f]_vars

\* C33: once logout() has returned, and until a login writes its tokens, the
\* token cells of the context are empty and the store holds no token, also
\* when a refresh was in flight at the time of the call.
C33_LoggedOutStaysLoggedOut ==
  loggedOut = "done" =>
    /\ store = Empty
    /\ accessToken["popup"] = 0 /\ refreshToken["popup"] = 0

\* ==================================================== claims, failing fast
\* The last request of the content script ended because the refresh it had
\* started failed, and the content script has sent none since.
RefreshHasFailed ==
  /\ req["content"][1].st = "failedRefresh"
  /\ req["content"][1].path = "start"

\* The number of tasks of bag B that are suspended at pc.
CountAt(B, pc) ==
  BagCardinality([t \in {x \in BagToSet(B) : x.pc = pc} |-> CopiesIn(t, B)])

\* Injections suspended in getCurrentTimeEntry.
QueryTasks(lds, cl) == CountAt(lds, "query") + CountAt(cl, "reQuery")

\* The controls of bs that are not among those of old.
Injected(old, bs) ==
  {bs[j] : j \in {k \in DOMAIN bs : \A i \in DOMAIN old : old[i].id # bs[k].id}}

\* C34: after a refresh has failed in the content script, the token cells and
\* the store stay empty; a click then shows the log-in message and starts no
\* handler that sends a request; no injection then queries the remote, and
\* an injection that starts then (it completes no earlier query) renders the
\* control as not tracking; neither sends a request or a REFRESH_TOKEN
\* message.
C34_FailedRefreshFailsFast ==
  /\ [](RefreshHasFailed =>
         /\ accessToken["content"] = 0 /\ refreshToken["content"] = 0
         /\ store = Empty)
  /\ [][RefreshHasFailed =>
          /\ (\E i \in 1..MaxBtns : Click(i)) =>
               /\ alert' = "login" /\ clicks' = clicks
               /\ UNCHANGED <<req, outstanding>>
          /\ QueryTasks(loads', clicks') <= QueryTasks(loads, clicks)
          /\ (/\ Injected(btns, btns') # {}
              /\ QueryTasks(loads', clicks') = QueryTasks(loads, clicks)) =>
               /\ \A b \in Injected(btns, btns') : ~b.tracking
               /\ UNCHANGED <<req, outstanding>>]_vars

\* After a failed refresh, a control that was injected during the session is
\* in the document, a click has shown the log-in message and no handler runs.
C34_Witness ==
  /\ RefreshHasFailed
  /\ alert = "login"
  /\ btns # <<>> /\ btns[1].tracking /\ ~btns[1].disabled
  /\ clicks = EmptyBag /\ loads = EmptyBag

\* ======================================================= claims, watchdog
\* C35: requestAnimationFrame holds at most one check of each watchdog, and
\* one exactly while checkScheduled is set; the check that runs takes it
\* and resets checkScheduled, and a mutation that reaches a connected
\* watchdog leaves exactly one check pending, whether one was pending before
\* or the last one has run.
C35_OneCheckPerFrame ==
  /\ [](\A x \in Observers :
         x[2].frames <= 1 /\ (x[2].sched <=> x[2].frames = 1))
  /\ [][/\ \A x \in Observers :
            checkAndReinject(x) =>
              x[2].frames = 1 /\ (x[1] = "w" => watch'.frames = 0)
        /\ ((\E i \in 1..MaxBtns : HostRemoveButton(i)) /\ watch.on) =>
              watch'.frames = 1]_vars

\* A check of the watchdog is pending again after an earlier check has run and
\* re-injected the control.
C35_Witness ==
  /\ watch.on /\ watch.frames = 1 /\ watch.reinj
  /\ btns # <<>> /\ removed

\* C36: a watchdog whose isReinjecting is set has a re-injection in progress
\* or its 100 ms timer pending, and a check that runs meanwhile starts no
\* re-injection; isReinjecting is reset eventually, whether the control was
\* injected, no actions wrapper was found or the query of the injection
\* failed.
C36_NoReentryAndReset ==
  /\ [](\A x \in Observers :
         /\ (x[2].pc = "query" \/ x[2].timer) => x[2].reinj
         /\ x[2].reinj => (x[2].pc = "query") # x[2].timer)
  /\ [][\A x \in Observers :
          (checkAndReinject(x) /\ x[2].reinj) =>
             /\ btns' = btns
             /\ x[1] = "w" =>
                  watch' = [watch EXCEPT !.sched = FALSE, !.frames = 0]]_vars
  /\ watch.reinj ~> ~watch.reinj

\* The 100 ms timer of the watchdog is pending after a re-injection whose
\* query failed, with the next check pending.
C36_Witness ==
  /\ watch.reinj /\ watch.timer /\ watch.sched
  /\ btns # <<>> /\ ~btns[1].tracking /\ active /\ LoggedIn /\ removed

\* The number of watchdog observers that are connected.
Connected ==
  (IF watch.on THEN 1 ELSE 0)
    + BagCardinality([o \in {x \in BagToSet(leaked) : x.on} |-> CopiesIn(o, leaked)])

\* C37: on Jira and Plane, whenever an injected control is in the document
\* of an issue page and no handlePageLoad is suspended, exactly one watchdog
\* observer is connected.
C37_OneObserverConnected ==
  (/\ HasWatchdog(platform)
   /\ btns # <<>> /\ isJiraIssuePage(url)
   /\ loads = EmptyBag) => Connected = 1

\* ================================================= claims, one click action
\* The click handlers in flight that have captured control b.
HandlersOf(b) ==
  BagCardinality([t \in {x \in BagToSet(clicks) : x.btn = b} |-> CopiesIn(t, clicks)])

\* The handlers of bag cl that stop (tracking) or start the time entry.
HandlersThat(cl, tracking) ==
  BagCardinality([t \in {x \in BagToSet(cl) : x.tracking = tracking} |-> CopiesIn(t, cl)])

\* C38: a control that a click handler in flight has captured is disabled
\* while it is in the document, no control has two click handlers in flight,
\* and one click starts at most one handler that stops and at most one that
\* creates a time entry.
C38_OneClickActionInFlight ==
  /\ [](\A j \in DOMAIN btns :
         /\ HandlersOf(btns[j].id) <= 1
         /\ HandlersOf(btns[j].id) = 1 => btns[j].disabled)
  /\ [][\A i \in 1..MaxBtns :
          Click(i) =>
            \A tracking \in BOOLEAN :
              HandlersThat(clicks', tracking) <= HandlersThat(clicks, tracking) + 1]_vars

\* ========================================== claims, waiting for an element
Polling == waiting.pc \in {"called", "pending"}

\* C39 as stated: waitForElement settles exactly once, resolving only with an
\* element that a poll before the end of the timeout has found and rejecting
\* otherwise. A poll after the timeout that finds the element resolves.
C39_ResolvesOnlyBeforeTimeout ==
  waiting.pc = "settled" =>
    /\ waiting.resolved + waiting.rejected = 1
    /\ waiting.resolved = 1 <=> waiting.settledAt <= waiting.timeout

\* C39, amended: waitForElement settles exactly once, never both ways: the
\* first poll at which the selector yields an element resolves, whether or
\* not the timeout has elapsed by then; a poll later than the timeout at
\* which it yields none rejects; every other poll asks for one more animation
\* frame; and while frames keep firing a call does not stay pending.
C39_SettlesOnce ==
  /\ [](/\ waiting.resolved + waiting.rejected <= 1
        /\ waiting.pc = "settled" <=> waiting.resolved + waiting.rejected = 1
        /\ waiting.frame <=> waiting.pc = "pending"
        /\ waiting.pc = "pending" => waiting.elapsed <= waiting.timeout)
  /\ [][(Polling /\ waiting'.elapsed >= waiting.elapsed /\ waiting' # waiting
          /\ waiting'.present = waiting.present) =>
          IF waiting.present
          THEN waiting'.resolved = 1 /\ waiting'.rejected = 0
          ELSE IF waiting'.elapsed > waiting.timeout
          THEN waiting'.rejected = 1 /\ waiting'.resolved = 0
          ELSE waiting'.pc = "pending"]_vars
  /\ (Polling ~> waiting.pc = "settled")

\* A poll later than the timeout has found the element and resolved.
C39_Witness ==
  /\ waiting.pc = "settled" /\ waiting.resolved = 1 /\ waiting.rejected = 0
  /\ waiting.settledAt > waiting.timeout

\* =========================================== claims, reset to defaults
\* C40: in the instance settings, "Reset to defaults" followed by Save
\* leaves the endpoint and the client id of the popup, and the values kept
\* in its localStorage, equal to the defaults of a fresh installation.
C40_ResetRestoresDefaults ==
  [][(modal.reset /\ submit) =>
       /\ endpoint'["popup"] = DefaultEndpoint
       /\ clientId'["popup"] = DefaultClientId
       /\ localStorage'[Origin("popup")] =
            [instance_endpoint |-> DefaultEndpoint,
             instance_client_id |-> DefaultClientId]]_vars

\* ===================================================== claims, token store
PendingSt == {"awaitRefresh", "awaitRemove"}

\* The step in which request k of context c calls refreshAccessToken().
CallsRefresh(c, k) ==
  req[c][k].st = "sent" /\ req'[c][k].st \in PendingSt

\* C2: within one context, a call to refreshAccessToken made while a refresh
\* is in flight sends no REFRESH_TOKEN message and joins the pending refresh
\* (one message per refresh, sent when it starts), and when the refresh
\* settles every request awaiting it observes the same outcome: all are
\* retried or all fail with the refresh failure.
C2_SingleFlight ==
  [][\A c \in Contexts :
       /\ (refreshPromise[c].phase = "none" /\ refreshPromise'[c].phase # "none")
            => outstanding'[c] = 1
       /\ refreshPromise[c].phase # "none" =>
            /\ outstanding'[c] <= outstanding[c]
            /\ \A k \in Reqs : CallsRefresh(c, k) =>
                 /\ req'[c][k].st = "awaitRefresh"
                 /\ req'[c][k].path = "join"
            /\ refreshPromise'[c].phase = "none" =>
                 \A k1, k2 \in Reqs :
                   (req[c][k1].st = "awaitRefresh" /\ req[c][k2].st = "awaitRefresh")
                     => /\ req'[c][k1].st = req'[c][k2].st
                        /\ req'[c][k1].st \in {"sent", "failedRefresh"}
                        /\ req'[c][k1].newTok = req'[c][k2].newTok]_vars

\* Two requests shared one refresh (one started it, one joined) and both
\* were retried when it resolved.
C2_Witness ==
  \E k1, k2 \in Reqs :
    /\ req["popup"][k1].path = "start" /\ req["popup"][k2].path = "join"
    /\ req["popup"][k1].st = "sent" /\ req["popup"][k1].n = 2
    /\ req["popup"][k2].st = "sent" /\ req["popup"][k2].n = 2

\* C3: when no refresh is in flight and the refresh token cell is empty, a
\* call to refreshAccessToken sends no REFRESH_TOKEN message, empties both
\* cells, removes both keys from the store, and can only end by rejecting:
\* the request fails without having been retried.
C3_NoRefreshToken ==
  [][\A c \in Contexts, k \in Reqs :
       /\ (CallsRefresh(c, k) /\ refreshPromise[c].phase = "none"
             /\ refreshToken[c] = 0)
            => /\ outstanding' = outstanding
               /\ refreshPromise'[c].phase = "none"
               /\ accessToken'[c] = 0 /\ refreshToken'[c] = 0
               /\ store' = Empty
               /\ req'[c][k].st = "awaitRemove"
       /\ req[c][k].st = "awaitRemove"
            => \/ req'[c][k] = req[c][k]
               \/ (req'[c][k].st = "failedRefresh" /\ req'[c][k].n = 1)]_vars

\* A request was rejected on the no-refresh-token path while the store held
\* tokens that the call removed.
C3_Witness ==
  \E k \in Reqs :
    /\ req["popup"][k].st = "failedRefresh"
    /\ req["popup"][k].path = "notoken"
    /\ req["popup"][k].n = 1
    /\ store = Empty /\ minted > 1

\* C4: when a refresh fails, the catch block empties both cells of the
\* calling context and removes both keys from the store; when the refresh
\* then settles the cells are still empty, every request awaiting it fails
\* with the refresh failure without a retry, and refreshPromise is reset, so
\* that a later call starts a new attempt.
C4_RefreshFailure ==
  [][\A c \in Contexts :
       /\ (refreshPromise[c].phase = "sent" /\ refreshPromise'[c].phase = "removing")
            => /\ accessToken'[c] = 0 /\ refreshToken'[c] = 0
               /\ store' = Empty
       /\ refreshPromise[c].phase = "removing" =>
            \/ refreshPromise'[c].phase = "removing"
            \/ /\ refreshPromise'[c] = NoPromise
               /\ accessToken'[c] = 0 /\ refreshToken'[c] = 0
               /\ \A k \in Reqs : req[c][k].st = "awaitRefresh" =>
                    (req'[c][k].st = "failedRefresh" /\ req'[c][k].n = 1)
       /\ \A k \in Reqs :
            (CallsRefresh(c, k) /\ refreshPromise[c].phase = "none"
               /\ refreshToken[c] # 0)
              => (req'[c][k].path = "start" /\ refreshPromise'[c].phase = "sent")]_vars

\* A refresh failed for the request that started it and for one that joined
\* it.
C4_Witness ==
  \E k1, k2 \in Reqs :
    /\ req["popup"][k1].st = "failedRefresh" /\ req["popup"][k1].path = "start"
    /\ req["popup"][k2].st = "failedRefresh" /\ req["popup"][k2].path = "join"
    /\ refreshPromise["popup"] = NoPromise

\* C5: a request is sent at most twice; its first 401 marks it and calls
\* refreshAccessToken, and it is retried only when that refresh resolves,
\* with the access token the refresh obtained; a 401 on the retry calls no
\* further refresh and fails the request; a failed refresh fails the request
\* without a retry.
C5_RetryOnce ==
  [][\A c \in Contexts, k \in Reqs :
       /\ req'[c][k].n <= 2
       /\ (req'[c][k].st = "sent" /\ req'[c][k].n = 2)
            => /\ req'[c][k].retry
               /\ req'[c][k].tok = req'[c][k].newTok
               /\ req'[c][k].tok # 0
       /\ (req[c][k].st = "sent" /\ req[c][k].retry)
            => req'[c][k].st \in {"sent", "ok", "failedOther", "failed401"}
       /\ req'[c][k].st = "failed401" => req'[c][k].n = 2
       /\ req'[c][k].st = "failedRefresh" => req'[c][k].n = 1]_vars

\* A request was retried after a refresh and failed on the second 401.
C5_Witness ==
  \E k \in Reqs :
    req["popup"][k].st = "failed401" /\ req["popup"][k].n = 2

\* C6: a START_OAUTH_FLOW whose callback carries an error, a state other
\* than oauthState or no code, or whose token exchange fails, ends without
\* success and without having written to the store; the step in which it
\* fails leaves the store as it is.
C6_FailedLoginWritesNothing ==
  [][\A f \in Flows :
       /\ flow'[f].bad =>
            /\ flow'[f].phase = "done"
            /\ ~flow'[f].ok
            /\ ~flow'[f].wrote
       /\ (flow'[f].bad /\ flow'[f] # flow[f]) => store' = store]_vars

\* A login failed while the store held tokens.
C6_Witness ==
  \E f \in Flows : flow[f].phase = "done" /\ flow[f].bad /\ store # Empty

\* C7: in every context, an empty refreshToken cell implies an empty
\* accessToken cell.
C7_EmptyRefreshImpliesEmptyAccess ==
  \A c \in Contexts : refreshToken[c] = 0 => accessToken[c] = 0

\* The content script's refreshToken cell is empty with a storage event still
\* to be delivered, while the popup holds refreshed tokens.
C7_Witness ==
  /\ up["content"] /\ refreshToken["content"] = 0
  /\ accessToken["popup"] > 1
  /\ \E i \in 1..Len(inbox["content"]) : inbox["content"][i].t = "changed"

\* No refresh, token removal, login or token load is in flight and every
\* storage event has been delivered.
Quiescent ==
  /\ \A c \in Contexts :
       /\ up[c]
       /\ inbox[c] = <<>>
       /\ refreshPromise[c].phase = "none"
       /\ \A k \in Reqs : req[c][k].st \notin PendingSt
  /\ \A f \in Flows : flow[f].phase \in {"idle", "done"}

\* C8: whenever every context is quiescent, the cells of each context equal
\* the access_token and refresh_token of the store.
C8_CellsFollowStore ==
  Quiescent =>
    \A c \in Contexts :
      /\ accessToken[c] = store.access_token
      /\ refreshToken[c] = store.refresh_token

\* Both contexts have refreshed, every token pair has been minted, and all
\* is quiescent with tokens in the store.
C8_Witness ==
  /\ Quiescent
  /\ store # Empty /\ minted = MaxTok
  /\ \A c \in Contexts : req[c][1].path = "start" /\ req[c][1].n = 2

\* The step writes non-empty tokens to the store.
WritesFreshTokens == store' # store /\ store' # Empty

\* The step is the background's write after a successful token exchange.
BackgroundWrites ==
  \E f \in Flows : flow[f].phase = "exchange" /\ flow'[f].phase = "storing"

\* C9, as claimed: only the background process writes non-empty tokens to
\* the store.
C9_OnlyBackgroundWrites ==
  [][WritesFreshTokens => BackgroundWrites]_vars

\* C9, amended: non-empty tokens are written to the store either by the
\* background after a successful token exchange of a login, or by a context
\* inside refreshAccessToken, which writes exactly the token pair of the
\* background's successful REFRESH_TOKEN answer.
C9_FreshTokensComeFromBackground ==
  [][WritesFreshTokens =>
       \/ BackgroundWrites
       \/ \E c \in Contexts :
            /\ refreshPromise[c].phase = "sent"
            /\ refreshPromise'[c].phase = "setting"
            /\ refreshPromise'[c].data = minted' /\ minted' = minted + 1
            /\ store' = Pair(minted', minted')]_vars

\* The content script has just written the tokens of a refresh answer.
C9_Witness ==
  /\ refreshPromise["content"].phase = "setting"
  /\ store = Pair(refreshPromise["content"].data, refreshPromise["content"].data)

====
